---- MODULE Spec2Model ----
(***************************************************************************)
(* Model of the ipp projection engine (src/ipp.cpp).                       *)
(*                                                                         *)
(*   SpecBatch   Ipp::projectCoords: the worker threads, the job stack,    *)
(*               the mutex and the exception forwarding.                   *)
(***************************************************************************)
EXTENDS Integers, Sequences, FiniteSets, TLC

VARIABLES
    \* ---- Ipp::projectCoords ----
    nCores,              \* parameter nCores
    refCoords,           \* parameter refCoords (the batch)
    throws,              \* the coords whose projectCoord() throws std::exception
    jobs,                \* local vector jobs (the shared stack)
    mutex,               \* holder of the std::mutex, NoThread when free
    hadWorkerException,  \* local flag hadWorkerException
    pc,                  \* position of every thread that runs worker()
    refCoord,            \* worker-local refCoord
    mainPc,              \* position of the calling thread
    spawned,             \* number of threads emplaced so far
    joined,              \* number of threads joined so far
    calls,               \* log of the onJobDoneCallback invocations
    \* ---- the build ----
    stdlibChecks,        \* TRUE: the standard library checks preconditions
    \* ---- longestSubsequence ----
    lisSeq,              \* argument seq
    lisRev,              \* which strand run is asked for
    lisPc,               \* "start", "helper", "wrapped"
    lisOut,              \* result of ::longestSubsequence
    wrapOut,             \* result of Ipp::longestSubsequence
    \* ---- the Ipp object ----
    chroms_,             \* the chromosome names, by id
    pwalns_,             \* species -> species -> chrom -> bucket
    genomeSizes_,        \* species -> genome size
    halfLifeDistance_,
    mapOrderAsc,         \* iteration order of the std::unordered_map chromCount
    \* ---- getAnchors / projectGenomicLocation ----
    anchCoords,          \* argument refCoords
    anchPc,              \* "start", "anchors", "projected"
    anchOut,             \* result of getAnchors
    projOut,             \* result of projectGenomicLocation
    \* ---- Ipp::projectCoord ----
    searchRef,           \* parameter refSpecies
    searchQry,           \* parameter qrySpecies
    searchCoords,        \* parameter refCoords
    searchScaling,       \* local scalingFactor
    shortestPath,        \* coordProjection.multiShortestPath
    direct,              \* coordProjection.direct: <<>> or <<projection>>
    orange,              \* the priority queue, as the set of its entries
    current,             \* local current
    todo,                \* the neighbours the for loop has not visited yet
    searchPc,            \* "start", "loop", "for", "returned", "thrown",
                         \* "aborted"
    pops,                \* number of orange.pop() calls so far
    expanded,            \* history: the species that reached the for loop,
                         \* each with its shortestPath entry at that time
    \* ---- Ipp::loadPwalns ----
    loadFile,            \* the file: whether it opens, and its content
    loadPos,             \* number of items read so far
    loadPc,              \* position in loadPwalns
    loadLeft,            \* what the loops still have to read
    loadCur,             \* locals sp1 and sp2
    storeBefore,         \* chroms_ and pwalns_ at the time of the call
    \* ---- Ipp::loadGenomeSizes ----
    sizeFiles,           \* the .sizes file of every species
    sizesPc,             \* position in loadGenomeSizes
    sizesTodo,           \* the species the for loop has not visited yet
    sizesCur,            \* local species
    sizesLine,           \* number of the next line of the open file
    sizeSum,             \* local genomeSize (unsigned)
    \* ---- the neighbor scan of Ipp::getAnchors, entry by entry ----
    scanBucket,          \* pwaln.at(refCoords.chrom)
    scanLoc,             \* refLoc
    scanNext,            \* position of the range-for in the bucket
    scanBuckets,         \* anchorsUpstream, ovAln and anchorsDownstream
    scanPc               \* position in the scan

batchVars == <<nCores, refCoords, throws, jobs, mutex, hadWorkerException,
               pc, refCoord, mainPc, spawned, joined, calls>>

lisVars == <<lisSeq, lisRev, lisPc, lisOut, wrapOut>>

ippVars == <<chroms_, pwalns_, genomeSizes_, halfLifeDistance_, mapOrderAsc>>

anchVars == <<anchCoords, anchPc, anchOut, projOut>>

searchVars == <<searchRef, searchQry, searchCoords, searchScaling,
                shortestPath, direct, orange, current, todo, searchPc, pops,
                expanded>>

loadVars == <<loadFile, loadPos, loadPc, loadLeft, loadCur, storeBefore>>

sizesVars == <<sizeFiles, sizesPc, sizesTodo, sizesCur, sizesLine, sizeSum>>

scanVars == <<scanBucket, scanLoc, scanNext, scanBuckets, scanPc>>

vars == <<batchVars, stdlibChecks, lisVars, ippVars, anchVars, searchVars,
          loadVars, sizesVars, scanVars>>

-----------------------------------------------------------------------------
(* Bounds of the explored inputs. *)
MaxCores == 3
MaxJobs == 3
MaxJobLoc == 2
MaxLisLen == 4
MaxQry == 3

(* The value a variable has while the operation it belongs to is not the one
   under study. *)
Unused == "unused"

(* Coords: a chromosome id and a location. *)
Coords(c, l) == [chrom |-> c, loc |-> l]

JobCoords == {Coords(0, l) : l \in 1..MaxJobLoc}

SeqsUpTo(S, n) == UNION {[1..k -> S] : k \in 0..n}

-----------------------------------------------------------------------------
(***************************************************************************)
(* PwalnEntry and the longest collinear subsequence.                       *)
(***************************************************************************)
Entry(rs, re, qs, qe, rc, qc) ==
    [refStart |-> rs, refEnd |-> re, qryStart |-> qs, qryEnd |-> qe,
     refChrom |-> rc, qryChrom |-> qc]

\* PwalnEntry::isQryReversed(): start > end means the '-' strand.
IsQryReversed(e) == e.qryStart > e.qryEnd

\* The filter and the two projections the wrapper passes for a strand:
\* rev = FALSE is the increasing run, rev = TRUE the decreasing one.  The
\* projections return int; every coordinate of the model is below 2^31, where
\* the conversion from uint32_t is the identity.
Filter(e, rev) == IsQryReversed(e) = rev
QryLo(e, rev) == IF rev THEN (-1) * e.qryStart ELSE e.qryStart
QryHi(e, rev) == IF rev THEN (-1) * e.qryEnd ELSE e.qryEnd

\* seq[i] and m[k] with the 0-based indices of the code.
At(seq, i) == seq[i + 1]

\* lines 732-741: binary search on m for the first element whose qryEnd
\* exceeds qryStart(seq[i]).
RECURSIVE BinarySearch(_, _, _, _, _, _)
BinarySearch(seq, rev, m, i, u, v) ==
    IF u < v
    THEN LET mid == (u + v) \div 2
         IN  IF QryHi(At(seq, At(m, mid)), rev) <= QryLo(At(seq, i), rev)
             THEN BinarySearch(seq, rev, m, i, mid + 1, v)
             ELSE BinarySearch(seq, rev, m, i, u, mid)
    ELSE u

\* line 745: the new element replaces m[u] only when it ends strictly lower.
Replaces(seq, rev, i, mu) == QryHi(At(seq, i), rev) < QryHi(At(seq, mu), rev)

\* lines 743-750: the update of m and prev at the position u found.
UpdateAt(seq, rev, i, st, u) ==
    IF Replaces(seq, rev, i, At(st.m, u))
    THEN [m |-> [st.m EXCEPT ![u + 1] = i],
          prev |-> IF u > 0 THEN [st.prev EXCEPT ![i] = At(st.m, u - 1)]
                   ELSE st.prev]
    ELSE st

\* lines 710-750: one iteration of the main loop; st = [m, prev].
LisStep(seq, rev, i, st) ==
    IF ~Filter(At(seq, i), rev) THEN st
    ELSE IF st.m = <<>> THEN [st EXCEPT !.m = <<i>>]
    ELSE IF QryHi(At(seq, st.m[Len(st.m)]), rev) <= QryLo(At(seq, i), rev)
         THEN [m |-> Append(st.m, i),
               prev |-> [st.prev EXCEPT ![i] = st.m[Len(st.m)]]]
    ELSE UpdateAt(seq, rev, i, st,
                  BinarySearch(seq, rev, st.m, i, 0, Len(st.m) - 1))

\* lines 706-751: the main loop, from element i on.
RECURSIVE LisLoop(_, _, _, _)
LisLoop(seq, rev, i, st) ==
    IF i >= Len(seq) THEN st
    ELSE LisLoop(seq, rev, i + 1, LisStep(seq, rev, i, st))

\* lines 754-759: the backtrace; u elements are still to be written.
RECURSIVE Backtrace(_, _, _, _)
Backtrace(seq, prev, u, v) ==
    IF u = 0 THEN <<>>
    ELSE Append(Backtrace(seq, prev, u - 1, prev[v]), At(seq, v))

\* line 755 evaluates m.back() before the loop, also when m is empty.  That
\* is undefined behaviour: a plain build reads a value it never uses and
\* returns the empty result, a build whose standard library checks
\* preconditions stops the process.
BackOnEmptyTraps(m, checked) == m = <<>> /\ checked

\* lines 753-760: the result for the final m and prev.
BacktraceResult(seq, st, checked) ==
    IF BackOnEmptyTraps(st.m, checked) THEN [abort |-> TRUE, res |-> <<>>]
    ELSE IF st.m = <<>> THEN [abort |-> FALSE, res |-> <<>>]
    ELSE [abort |-> FALSE,
          res |-> Backtrace(seq, st.prev, Len(st.m), st.m[Len(st.m)])]

\* ::longestSubsequence (lines 683-761).
\* Result: [abort |-> BOOLEAN, res |-> the subsequence].
LongestSubsequenceHelper(seq, rev, checked) ==
    IF Len(seq) = 0 THEN [abort |-> FALSE, res |-> <<>>]
    ELSE BacktraceResult(
             seq,
             LisLoop(seq, rev, 0,
                     [m |-> <<>>, prev |-> [i \in 0..(Len(seq) - 1) |-> 0]]),
             checked)

\* lines 819-824: the sanity asserts on the increasing run.
RECURSIVE IncAssertsHold(_, _)
IncAssertsHold(inc, loc) ==
    IF inc = <<>> THEN TRUE
    ELSE /\ loc <= inc[1].qryStart
         /\ inc[1].qryStart < inc[1].qryEnd
         /\ IncAssertsHold(Tail(inc), inc[1].qryEnd)

\* lines 825-830: the sanity asserts on the decreasing run.  loc starts as
\* the largest uint32_t, written <<>> here; afterwards it is <<qryStart>>.
RECURSIVE DecAssertsHold(_, _)
DecAssertsHold(dec, loc) ==
    IF dec = <<>> THEN TRUE
    ELSE /\ loc = <<>> \/ loc[1] >= dec[1].qryEnd
         /\ dec[1].qryStart > dec[1].qryEnd
         /\ DecAssertsHold(Tail(dec), <<dec[1].qryStart>>)

\* line 832: the longer run wins, the increasing one on a tie.
PickRun(inc, dec) == IF Len(inc) >= Len(dec) THEN inc ELSE dec

\* lines 817-832: the asserts and the choice between the two runs.
CheckedRuns(inc, dec) ==
    IF inc.abort \/ dec.abort THEN [abort |-> TRUE, res |-> <<>>]
    ELSE IF ~IncAssertsHold(inc.res, 0) \/ ~DecAssertsHold(dec.res, <<>>)
         THEN [abort |-> TRUE, res |-> <<>>]
    ELSE [abort |-> FALSE, res |-> PickRun(inc.res, dec.res)]

\* Ipp::longestSubsequence (lines 765-833).
LongestSubsequence(seq, checked) ==
    CheckedRuns(LongestSubsequenceHelper(seq, FALSE, checked),
                LongestSubsequenceHelper(seq, TRUE, checked))

-----------------------------------------------------------------------------
(***************************************************************************)
(* Ipp::getAnchors.                                                        *)
(***************************************************************************)
minn == 5
topn == 20

\* First n elements of a sequence (all of it when it is shorter).
FirstN(s, n) == IF Len(s) <= n THEN s ELSE SubSeq(s, 1, n)

\* lines 523-524, 531: insert into the std::set ordered by decreasing refEnd.
\* Two entries with the same refEnd are equivalent keys: the second insert
\* changes nothing.  The set is kept as the sequence of its iteration order.
PlaceAt(set, e, n) == SubSeq(set, 1, n) \o <<e>> \o SubSeq(set, n + 1, Len(set))
InsertByRefEnd(set, e) ==
    IF \E i \in 1..Len(set) : set[i].refEnd = e.refEnd THEN set
    ELSE PlaceAt(set, e,
                 Cardinality({i \in 1..Len(set) : e.refEnd < set[i].refEnd}))

\* lines 528 and 614: [ anchor ]   x   (refEnd is exclusive).
IsUpstreamByStart(e, refLoc) == e.refStart <= refLoc
IsUpstream(e, refLoc) == e.refEnd <= refLoc

\* lines 539 and 619:   x   [ anchor ]
IsDownstream(e, refLoc) == refLoc < e.refStart

\* lines 531-538: insert, and cut back to topn once 10*topn is exceeded.
CutSurplusShort(set) ==
    IF Len(set) > 10 * topn THEN FirstN(set, topn \div 2) ELSE set
CutSurplus(set) == IF Len(set) > 10 * topn THEN FirstN(set, topn) ELSE set
InsertUpstream(set, e) == CutSurplus(InsertByRefEnd(set, e))

\* lines 527-556: the neighbor scan from element k of the bucket on.
\* b = [up, ov, down]; the scan stops when the topn-th downstream entry is
\* pushed.
RECURSIVE Scan(_, _, _, _)
Scan(bucket, refLoc, k, b) ==
    IF k > Len(bucket) THEN b
    ELSE IF IsUpstream(bucket[k], refLoc)
         THEN Scan(bucket, refLoc, k + 1,
                   [b EXCEPT !.up = InsertUpstream(b.up, bucket[k])])
    ELSE IF IsDownstream(bucket[k], refLoc)
         THEN IF Len(b.down) + 1 = topn
              THEN [b EXCEPT !.down = Append(b.down, bucket[k])]
              ELSE Scan(bucket, refLoc, k + 1,
                        [b EXCEPT !.down = Append(b.down, bucket[k])])
    ELSE Scan(bucket, refLoc, k + 1,
              [b EXCEPT !.ov = Append(b.ov, bucket[k])])

\* lines 365-370: occurrences of chrom c as qryChrom in a bucket.
RECURSIVE ChromCount(_, _)
ChromCount(s, c) ==
    IF s = <<>> THEN 0
    ELSE (IF s[1].qryChrom = c THEN 1 ELSE 0) + ChromCount(Tail(s), c)

QryChromsOf(s) == {s[k].qryChrom : k \in 1..Len(s)}

\* lines 381-396: the chromosome with the highest count.  The loop walks a
\* std::unordered_map and keeps the first maximum it meets, so on a tie the
\* winner depends on the container's iteration order: ascOrder = TRUE walks
\* the keys upwards, FALSE downwards.  With no entry at all the result is 0.
ComputeMajorChrom(ov, up, down, ascOrder) ==
    LET all == ov \o up \o down
        chroms == QryChromsOf(all)
        best == {c \in chroms :
                    \A d \in chroms : ChromCount(all, d) <= ChromCount(all, c)}
    IN  IF chroms = {} THEN 0
        ELSE IF ascOrder THEN CHOOSE c \in best : \A d \in best : c <= d
        ELSE CHOOSE c \in best : \A d \in best : d <= c

\* lines 398-408
KeepAllEntries(s, majorChrom) == s
RemoveEntriesWithNonMajorQryChromosome(s, majorChrom) ==
    SelectSeq(s, LAMBDA e : e.qryChrom = majorChrom)

\* lines 588-592
CompLessRefStart(lhs, rhs) ==
    \/ lhs.refStart < rhs.refStart
    \/ lhs.refStart = rhs.refStart /\ lhs.refEnd < rhs.refEnd

\* line 593: std::sort by (refStart, refEnd), as an insertion sort.
RECURSIVE InsertSorted(_, _)
InsertSorted(s, e) ==
    IF s = <<>> THEN <<e>>
    ELSE IF CompLessRefStart(e, s[1]) THEN <<e>> \o s
    ELSE <<s[1]>> \o InsertSorted(Tail(s), e)

RECURSIVE SortByRefStart(_)
SortByRefStart(s) ==
    IF s = <<>> THEN <<>>
    ELSE InsertSorted(SortByRefStart(SubSeq(s, 1, Len(s) - 1)), s[Len(s)])

AbsDiff(a, b) == IF a > b THEN a - b ELSE b - a
Min(a, b) == IF a < b THEN a ELSE b

\* lines 628-643: the overlapping anchor kept after looking at one more.
\* minDistNew is computed from the anchor held so far and minDistOld from
\* the one just met, and the new one is taken when minDistNew < minDistOld.
NextOvAln(held, anchor, refLoc) ==
    LET minDistNew == Min(AbsDiff(held.refStart, refLoc),
                          AbsDiff(held.refEnd, refLoc))
        minDistOld == Min(AbsDiff(anchor.refStart, refLoc),
                          AbsDiff(anchor.refEnd, refLoc))
    IN  IF minDistNew < minDistOld THEN anchor ELSE held

\* lines 610-645: the selection loop from element k on.  c = [up, ov, down],
\* each <<>> (the null pointer) or <<entry>>.
RECURSIVE SelectClosest(_, _, _, _)
SelectClosest(anchors, refLoc, k, c) ==
    IF k > Len(anchors) THEN c
    ELSE IF IsUpstream(anchors[k], refLoc)
         THEN SelectClosest(anchors, refLoc, k + 1,
                IF c.up = <<>> \/ c.up[1].refEnd < anchors[k].refEnd
                THEN [c EXCEPT !.up = <<anchors[k]>>] ELSE c)
    ELSE IF IsDownstream(anchors[k], refLoc)
         THEN IF c.down = <<>> \/ anchors[k].refStart < c.down[1].refStart
              THEN [c EXCEPT !.down = <<anchors[k]>>]
              ELSE SelectClosest(anchors, refLoc, k + 1, c)
    ELSE SelectClosest(anchors, refLoc, k + 1,
           IF c.ov = <<>> THEN [c EXCEPT !.ov = <<anchors[k]>>]
           ELSE [c EXCEPT !.ov = <<NextOvAln(c.ov[1], anchors[k], refLoc)>>])

\* lines 559-562: trim anchorsUpstream to the topn closest entries.
TrimUpstream(b) == [b EXCEPT !.up = FirstN(b.up, topn)]

\* lines 568-570: keep the entries of the major chromosome in all buckets.
KeepMajorChrom(b, majorChrom) ==
    [majorChrom |-> majorChrom,
     up |-> RemoveEntriesWithNonMajorQryChromosome(b.up, majorChrom),
     ov |-> RemoveEntriesWithNonMajorQryChromosome(b.ov, majorChrom),
     down |-> RemoveEntriesWithNonMajorQryChromosome(b.down, majorChrom)]

\* lines 566-570: the major-chromosome filter.
MajorChromFilter(b, ascOrder) ==
    KeepMajorChrom(b, ComputeMajorChrom(b.ov, b.up, b.down, ascOrder))

\* The three buckets after the scan (lines 527-556), the final trim and the
\* major-chromosome filter.
CandidateBuckets(bucket, refLoc, ascOrder) ==
    MajorChromFilter(
        TrimUpstream(Scan(bucket, refLoc, 1,
                          [up |-> <<>>, ov |-> <<>>, down |-> <<>>])),
        ascOrder)

\* lines 581-595: the candidates of the three buckets, sorted by refStart
\* and reduced to their longest collinear subsequence.
CollinearAnchors(b, checked) ==
    LongestSubsequence(SortByRefStart(b.up \o b.ov \o b.down), checked)

\* lines 646-678: the anchors returned for the closest entries c found by
\* the selection loop.
ReturnedAnchors(c) ==
    IF c.ov # <<>>
    THEN [kind |-> "anchors", upstream |-> c.ov[1], downstream |-> c.ov[1]]
    ELSE IF c.up = <<>> \/ c.down = <<>> THEN [kind |-> "none"]
    ELSE [kind |-> "anchors", upstream |-> c.up[1], downstream |-> c.down[1]]

\* lines 595-678: from the result lis of longestSubsequence on.
AnchorsFromRun(lis, refLoc) ==
    IF lis.abort THEN [kind |-> "abort"]
    ELSE IF Len(lis.res) < minn THEN [kind |-> "none"]
    ELSE ReturnedAnchors(SelectClosest(lis.res, refLoc, 1,
                             [up |-> <<>>, ov |-> <<>>, down |-> <<>>]))

\* lines 572-678: from the filtered buckets b on.
AnchorsFromBuckets(b, refLoc, checked) ==
    IF b.up = <<>> \/ b.down = <<>> THEN [kind |-> "none"]
    ELSE AnchorsFromRun(CollinearAnchors(b, checked), refLoc)

\* Ipp::getAnchors (lines 496-679).  Result kinds:
\*   "throw"    pwaln.at(refCoords.chrom) throws std::out_of_range
\*   "abort"    the process is stopped inside longestSubsequence
\*   "none"     the empty optional
\*   "anchors"  with fields upstream and downstream
GetAnchors(pwaln, coords, ascOrder, checked) ==
    IF coords.chrom \notin DOMAIN pwaln THEN [kind |-> "throw"]
    ELSE AnchorsFromBuckets(
             CandidateBuckets(pwaln[coords.chrom], coords.loc, ascOrder),
             coords.loc, checked)

-----------------------------------------------------------------------------
(***************************************************************************)
(* Scores.  getScalingFactor returns s = -H / (G_ref * ln 0.5) and         *)
(* projectionScore returns exp(-d / (G * s)) = 2^-(d * G_ref / (G * H)).   *)
(* A score is kept as the rational number of halvings [n, d], standing for *)
(* 2^-(n/d): 1.0 is [0, 1], scores multiply by adding their halvings and a *)
(* score is the higher the fewer halvings it has.  The arithmetic is that  *)
(* of the reals; the rounding of double is not modelled.                   *)
(***************************************************************************)
RECURSIVE GCD(_, _)
GCD(a, b) == IF b = 0 THEN a ELSE GCD(b, a % b)

Halvings(n, d) == [n |-> n \div GCD(n, d), d |-> d \div GCD(n, d)]
ScoreOne == Halvings(0, 1)

ScoreLess(a, b) == a.n * b.d > b.n * a.d
ScoreEq(a, b) == a.n * b.d = b.n * a.d
ScoreLeq(a, b) == ScoreLess(a, b) \/ ScoreEq(a, b)
ScoreMul(a, b) == Halvings(a.n * b.d + b.n * a.d, a.d * b.d)

\* Ipp::getScalingFactor (lines 171-178): the pair (H, G_ref).
GetScalingFactor(halfLifeDistance, genomeSize) ==
    [h |-> halfLifeDistance, g |-> genomeSize]

\* Ipp::projectionScore (lines 835-849).
ProjectionScore(loc, leftBound, rightBound, genomeSize, scalingFactor) ==
    LET d == Min(loc - leftBound, rightBound - loc)
    IN  Halvings(d * scalingFactor.g, genomeSize * scalingFactor.h)

-----------------------------------------------------------------------------
(***************************************************************************)
(* Ipp::projectGenomicLocation.                                            *)
(***************************************************************************)
\* lines 485-488: the linear interpolation; the conversion to uint32_t
\* truncates.
InterpolateFromRight(refLoc, refLeftBound, refRightBound, qryLeftBound, qryRightBound) ==
    qryRightBound - ((refLoc - refLeftBound) * (qryRightBound - qryLeftBound))
                       \div (refRightBound - refLeftBound)
Interpolate(refLoc, refLeftBound, refRightBound, qryLeftBound, qryRightBound) ==
    qryLeftBound + ((refLoc - refLeftBound) * (qryRightBound - qryLeftBound))
                      \div (refRightBound - refLeftBound)

\* lines 443-449: the query bounds of the upstream side on the forward axis.
QryUpStart(a) ==
    IF ~IsQryReversed(a.upstream) THEN a.upstream.qryStart ELSE a.downstream.qryEnd
QryUpEnd(a) ==
    IF ~IsQryReversed(a.upstream) THEN a.upstream.qryEnd ELSE a.downstream.qryStart
\* lines 465-470: the same for the downstream side.
QryDownStart(a) ==
    IF ~IsQryReversed(a.upstream) THEN a.downstream.qryStart ELSE a.upstream.qryEnd
QryDownEnd(a) ==
    IF ~IsQryReversed(a.upstream) THEN a.downstream.qryEnd ELSE a.upstream.qryStart

\* The three asserts of lines 450, 471 and 484.
Assert450(a) == QryUpStart(a) < QryUpEnd(a)
Assert471(a) == QryUpEnd(a) <= QryDownStart(a) /\ QryDownStart(a) < QryDownEnd(a)
Assert484(refLeftBound, refLoc, refRightBound) ==
    refLeftBound <= refLoc /\ refLoc < refRightBound

\* lines 452-476: the bounds of the interpolation, for the overlap case and
\* for distinct flanks.
RefLeftBound(a) ==
    IF a.upstream = a.downstream THEN a.upstream.refStart ELSE a.upstream.refEnd
RefRightBound(a) ==
    IF a.upstream = a.downstream THEN a.upstream.refEnd ELSE a.downstream.refStart
QryLeftBound(a) ==
    IF a.upstream = a.downstream THEN QryUpStart(a) ELSE QryUpEnd(a)
QryRightBound(a) ==
    IF a.upstream = a.downstream THEN QryUpEnd(a) ELSE QryDownStart(a)

\* lines 452-483: the score of the projection.
HopScore(sizes, refSpecies, refLoc, scalingFactor, a) ==
    IF a.upstream = a.downstream THEN ScoreOne
    ELSE ProjectionScore(refLoc, RefLeftBound(a), RefRightBound(a),
                         sizes[refSpecies], scalingFactor)

\* lines 435-493, once getAnchors has returned the anchors a.
\* Result kinds: "assert" (an assert failed), "throw" (genomeSizes_.at),
\* "result" with score, nextCoords and anchors.
ProjectWithAnchors(sizes, refSpecies, coords, scalingFactor, a) ==
    IF ~Assert450(a) THEN [kind |-> "assert", line |-> 450]
    ELSE IF a.upstream # a.downstream /\ ~Assert471(a)
         THEN [kind |-> "assert", line |-> 471]
    ELSE IF a.upstream # a.downstream /\ refSpecies \notin DOMAIN sizes
         THEN [kind |-> "throw"]
    ELSE IF ~Assert484(RefLeftBound(a), coords.loc, RefRightBound(a))
         THEN [kind |-> "assert", line |-> 484]
    ELSE [kind |-> "result",
          score |-> HopScore(sizes, refSpecies, coords.loc, scalingFactor, a),
          nextCoords |-> Coords(a.upstream.qryChrom,
                                Interpolate(coords.loc, RefLeftBound(a),
                                            RefRightBound(a), QryLeftBound(a),
                                            QryRightBound(a))),
          anchors |-> [upstream |-> a.upstream, downstream |-> a.downstream]]

\* lines 428-493: from the result of getAnchors on.
ProjectFromAnchors(sizes, refSpecies, coords, scalingFactor, anchors) ==
    IF anchors.kind = "anchors"
    THEN ProjectWithAnchors(sizes, refSpecies, coords, scalingFactor, anchors)
    ELSE [kind |-> anchors.kind]

\* Ipp::projectGenomicLocation (lines 412-494).  Further result kinds:
\* "none" (the empty optional) and the "throw" and "abort" of getAnchors.
ProjectGenomicLocation(store, sizes, refSpecies, qrySpecies, coords, scalingFactor, ascOrder, checked) ==
    IF refSpecies \notin DOMAIN store THEN [kind |-> "none"]
    ELSE IF qrySpecies \notin DOMAIN store[refSpecies] THEN [kind |-> "none"]
    ELSE ProjectFromAnchors(
             sizes, refSpecies, coords, scalingFactor,
             GetAnchors(store[refSpecies][qrySpecies], coords, ascOrder, checked))

-----------------------------------------------------------------------------
(***************************************************************************)
(* Ipp::projectCoords.  Thread 0 is the calling thread; it runs worker()   *)
(* itself when nCores <= 1.  Threads 1..nCores are the std::threads.       *)
(***************************************************************************)
NoThread == -1
Threads == 0..MaxCores
NoCoord == Coords(0, 0)

\* The threads that run worker() for the given nCores.
WorkersOf(n) == IF n <= 1 THEN {0} ELSE 1..n

\* std::lock_guard can be constructed only while nobody holds the mutex.
MutexFreeBroken(m) == TRUE
MutexFree(m) == m = NoThread

\* jobs.pop_back()
PopBackKeeps(s) == s
PopBack(s) == SubSeq(s, 1, Len(s) - 1)

\* line 231: whether the caller runs worker() itself.
RunsInline(n) == n <= 1

\* lines 231-250: what the caller does once every worker has returned.
\* Only the threaded branch looks at hadWorkerException.
AfterWorkers(n, had) ==
    IF RunsInline(n) THEN "returned"
    ELSE IF had THEN "raised" ELSE "returned"

LisUnused ==
    /\ lisSeq = <<>> /\ lisRev = FALSE /\ lisPc = Unused
    /\ lisOut = Unused /\ wrapOut = Unused

IppUnused ==
    /\ chroms_ = <<>>
    /\ pwalns_ = <<>> /\ genomeSizes_ = <<>> /\ halfLifeDistance_ = 0
    /\ mapOrderAsc = TRUE

AnchUnused ==
    /\ anchCoords = NoCoord /\ anchPc = Unused
    /\ anchOut = Unused /\ projOut = Unused

\* The locals of projectCoord before they are initialised.
NoScaling == [h |-> 0, g |-> 0]
NoEntry == [score |-> [n |-> 0, d |-> 1], species |-> "", coords |-> NoCoord]

SearchUnused ==
    /\ searchRef = Unused /\ searchQry = Unused /\ searchCoords = NoCoord
    /\ searchScaling = NoScaling /\ shortestPath = <<>> /\ direct = <<>>
    /\ orange = {} /\ current = NoEntry /\ todo = {}
    /\ searchPc = Unused /\ pops = 0 /\ expanded = <<>>

\* A 32-bit quantity is kept as two 16-bit limbs: [hi, lo] stands for
\* hi * 2^16 + lo.
Limbs(hi, lo) == [hi |-> hi, lo |-> lo]

NoFile == [opens |-> FALSE, items |-> <<>>]

LoadUnused ==
    /\ loadFile = NoFile /\ loadPos = 0 /\ loadPc = Unused
    /\ loadLeft = [chroms |-> 0, sp1 |-> 0, sp2 |-> 0, buckets |-> 0]
    /\ loadCur = [sp1 |-> "", sp2 |-> ""]
    /\ storeBefore = [chroms |-> <<>>, pwalns |-> <<>>]

SizesUnused ==
    /\ sizeFiles = <<>> /\ sizesPc = Unused /\ sizesTodo = {}
    /\ sizesCur = "" /\ sizesLine = 0 /\ sizeSum = Limbs(0, 0)

NoBuckets == [up |-> <<>>, ov |-> <<>>, down |-> <<>>]

ScanUnused ==
    /\ scanBucket = <<>> /\ scanLoc = 0 /\ scanNext = 0
    /\ scanBuckets = NoBuckets /\ scanPc = Unused

BatchInit ==
    /\ nCores \in 0..MaxCores
    /\ refCoords \in SeqsUpTo(JobCoords, MaxJobs)
    /\ throws \in SUBSET JobCoords
    /\ jobs = refCoords
    /\ mutex = NoThread
    /\ hadWorkerException = FALSE
    /\ pc = [t \in Threads |-> "idle"]
    /\ refCoord = [t \in Threads |-> NoCoord]
    /\ mainPc = "start"
    /\ spawned = 0
    /\ joined = 0
    /\ calls = <<>>
    /\ stdlibChecks = FALSE
    /\ LisUnused
    /\ IppUnused
    /\ AnchUnused
    /\ SearchUnused
    /\ LoadUnused
    /\ SizesUnused
    /\ ScanUnused

\* line 231-232: nCores <= 1, the caller enters worker().
CallInline ==
    /\ mainPc = "start"
    /\ RunsInline(nCores)
    /\ mainPc' = "inline"
    /\ pc' = [pc EXCEPT ![0] = "lock_pop"]
    /\ UNCHANGED <<nCores, refCoords, throws, jobs, mutex, hadWorkerException,
                   refCoord, spawned, joined, calls,
                   stdlibChecks, lisVars, ippVars, anchVars, searchVars,
                   loadVars, sizesVars, scanVars>>

\* lines 236-239: threads.emplace_back(worker), one thread per step.
Spawn ==
    /\ mainPc \in {"start", "spawn"}
    /\ ~RunsInline(nCores)
    /\ spawned < nCores
    /\ spawned' = spawned + 1
    /\ pc' = [pc EXCEPT ![spawned + 1] = "lock_pop"]
    /\ mainPc' = IF spawned + 1 = nCores THEN "join" ELSE "spawn"
    /\ UNCHANGED <<nCores, refCoords, throws, jobs, mutex, hadWorkerException,
                   refCoord, joined, calls,
                   stdlibChecks, lisVars, ippVars, anchVars, searchVars,
                   loadVars, sizesVars, scanVars>>

\* line 199: lock_guard before the pop.
LockPop(w) ==
    /\ pc[w] = "lock_pop"
    /\ MutexFree(mutex)
    /\ mutex' = w
    /\ pc' = [pc EXCEPT ![w] = "get_job"]
    /\ UNCHANGED <<nCores, refCoords, throws, jobs, hadWorkerException,
                   refCoord, mainPc, spawned, joined, calls,
                   stdlibChecks, lisVars, ippVars, anchVars, searchVars,
                   loadVars, sizesVars, scanVars>>

\* lines 200-205: return when the stack is empty, else read jobs.back().
GetJob(w) ==
    /\ pc[w] = "get_job"
    /\ IF jobs = <<>>
       THEN /\ pc' = [pc EXCEPT ![w] = "done"]
            /\ mutex' = IF mutex = w THEN NoThread ELSE mutex
            /\ UNCHANGED refCoord
       ELSE /\ refCoord' = [refCoord EXCEPT ![w] = jobs[Len(jobs)]]
            /\ pc' = [pc EXCEPT ![w] = "pop_back"]
            /\ UNCHANGED mutex
    /\ UNCHANGED <<nCores, refCoords, throws, jobs, hadWorkerException,
                   mainPc, spawned, joined, calls,
                   stdlibChecks, lisVars, ippVars, anchVars, searchVars,
                   loadVars, sizesVars, scanVars>>

\* lines 206-207: jobs.pop_back(), then the lock_guard goes out of scope.
PopJob(w) ==
    /\ pc[w] = "pop_back"
    /\ jobs' = IF jobs = <<>> THEN jobs ELSE PopBack(jobs)
    /\ mutex' = IF mutex = w THEN NoThread ELSE mutex
    /\ pc' = [pc EXCEPT ![w] = "project"]
    /\ UNCHANGED <<nCores, refCoords, throws, hadWorkerException,
                   refCoord, mainPc, spawned, joined, calls,
                   stdlibChecks, lisVars, ippVars, anchVars, searchVars,
                   loadVars, sizesVars, scanVars>>

\* lines 210-214: projectCoord() outside the lock; it returns or throws.
Project(w) ==
    /\ pc[w] = "project"
    /\ pc' = [pc EXCEPT ![w] = IF refCoord[w] \in throws
                                THEN "lock_exc" ELSE "lock_cb"]
    /\ UNCHANGED <<nCores, refCoords, throws, jobs, mutex, hadWorkerException,
                   refCoord, mainPc, spawned, joined, calls,
                   stdlibChecks, lisVars, ippVars, anchVars, searchVars,
                   loadVars, sizesVars, scanVars>>

\* line 216: lock_guard in the catch block.
LockExc(w) ==
    /\ pc[w] = "lock_exc"
    /\ MutexFree(mutex)
    /\ mutex' = w
    /\ pc' = [pc EXCEPT ![w] = "in_exc"]
    /\ UNCHANGED <<nCores, refCoords, throws, jobs, hadWorkerException,
                   refCoord, mainPc, spawned, joined, calls,
                   stdlibChecks, lisVars, ippVars, anchVars, searchVars,
                   loadVars, sizesVars, scanVars>>

\* lines 217-219: record the exception and return from worker().
RecordExc(w) ==
    /\ pc[w] = "in_exc"
    /\ hadWorkerException' = TRUE
    /\ mutex' = IF mutex = w THEN NoThread ELSE mutex
    /\ pc' = [pc EXCEPT ![w] = "done"]
    /\ UNCHANGED <<nCores, refCoords, throws, jobs,
                   refCoord, mainPc, spawned, joined, calls,
                   stdlibChecks, lisVars, ippVars, anchVars, searchVars,
                   loadVars, sizesVars, scanVars>>

\* line 225: lock_guard before the callback.
LockCb(w) ==
    /\ pc[w] = "lock_cb"
    /\ MutexFree(mutex)
    /\ mutex' = w
    /\ pc' = [pc EXCEPT ![w] = "in_cb"]
    /\ UNCHANGED <<nCores, refCoords, throws, jobs, hadWorkerException,
                   refCoord, mainPc, spawned, joined, calls,
                   stdlibChecks, lisVars, ippVars, anchVars, searchVars,
                   loadVars, sizesVars, scanVars>>

\* lines 226-228: onJobDoneCallback(refCoord, coordProjection), unlock, loop.
Callback(w) ==
    /\ pc[w] = "in_cb"
    /\ calls' = Append(calls, refCoord[w])
    /\ mutex' = IF mutex = w THEN NoThread ELSE mutex
    /\ pc' = [pc EXCEPT ![w] = "lock_pop"]
    /\ UNCHANGED <<nCores, refCoords, throws, jobs, hadWorkerException,
                   refCoord, mainPc, spawned, joined,
                   stdlibChecks, lisVars, ippVars, anchVars, searchVars,
                   loadVars, sizesVars, scanVars>>

\* lines 242-244: thread.join(), in creation order.
Join ==
    /\ mainPc = "join"
    /\ joined < nCores
    /\ pc[joined + 1] = "done"
    /\ joined' = joined + 1
    /\ UNCHANGED <<nCores, refCoords, throws, jobs, mutex, hadWorkerException,
                   pc, refCoord, mainPc, spawned, calls,
                   stdlibChecks, lisVars, ippVars, anchVars, searchVars,
                   loadVars, sizesVars, scanVars>>

\* lines 232 and 247-250: the end of projectCoords.
Finish ==
    /\ \/ mainPc = "inline" /\ pc[0] = "done"
       \/ mainPc = "join" /\ joined = nCores
    /\ mainPc' = AfterWorkers(nCores, hadWorkerException)
    /\ UNCHANGED <<nCores, refCoords, throws, jobs, mutex, hadWorkerException,
                   pc, refCoord, spawned, joined, calls,
                   stdlibChecks, lisVars, ippVars, anchVars, searchVars,
                   loadVars, sizesVars, scanVars>>

BatchNext ==
    \/ CallInline
    \/ Spawn
    \/ \E w \in Threads : LockPop(w)
    \/ \E w \in Threads : GetJob(w)
    \/ \E w \in Threads : PopJob(w)
    \/ \E w \in Threads : Project(w)
    \/ \E w \in Threads : LockExc(w)
    \/ \E w \in Threads : RecordExc(w)
    \/ \E w \in Threads : LockCb(w)
    \/ \E w \in Threads : Callback(w)
    \/ Join
    \/ Finish

SpecBatch == BatchInit /\ [][BatchNext]_vars

-----------------------------------------------------------------------------
(***************************************************************************)
(* SpecLis: ::longestSubsequence and its wrapper applied to every sequence *)
(* of at most MaxLisLen entries, sorted by refStart, with query            *)
(* coordinates in 0..MaxQry.                                               *)
(***************************************************************************)
QryPairs == {q \in (0..MaxQry) \X (0..MaxQry) : q[1] # q[2]}

LisInputs ==
    {[k \in 1..Len(q) |-> Entry(k - 1, k, q[k][1], q[k][2], 0, 0)] :
        q \in SeqsUpTo(QryPairs, MaxLisLen)}

BatchUnused ==
    /\ nCores = 0 /\ refCoords = <<>> /\ throws = {} /\ jobs = <<>>
    /\ mutex = NoThread /\ hadWorkerException = FALSE
    /\ pc = [t \in Threads |-> "idle"]
    /\ refCoord = [t \in Threads |-> NoCoord]
    /\ mainPc = Unused /\ spawned = 0 /\ joined = 0 /\ calls = <<>>

LisInit ==
    /\ BatchUnused
    /\ stdlibChecks \in BOOLEAN
    /\ lisSeq \in LisInputs
    /\ lisRev \in BOOLEAN
    /\ lisPc = "start"
    /\ lisOut = Unused
    /\ wrapOut = Unused
    /\ IppUnused
    /\ AnchUnused
    /\ SearchUnused
    /\ LoadUnused
    /\ SizesUnused
    /\ ScanUnused

\* A call of ::longestSubsequence(seq, filter, qryStart, qryEnd).
LisCallHelper ==
    /\ lisPc = "start"
    /\ lisOut' = LongestSubsequenceHelper(lisSeq, lisRev, stdlibChecks)
    /\ lisPc' = "helper"
    /\ UNCHANGED <<batchVars, stdlibChecks, lisSeq, lisRev, wrapOut,
                   ippVars, anchVars, searchVars,
                   loadVars, sizesVars, scanVars>>

\* A call of Ipp::longestSubsequence(seq).
LisCallWrapper ==
    /\ lisPc = "helper"
    /\ wrapOut' = LongestSubsequence(lisSeq, stdlibChecks)
    /\ lisPc' = "wrapped"
    /\ UNCHANGED <<batchVars, stdlibChecks, lisSeq, lisRev, lisOut,
                   ippVars, anchVars, searchVars,
                   loadVars, sizesVars, scanVars>>

LisNext == LisCallHelper \/ LisCallWrapper

SpecLis == LisInit /\ [][LisNext]_vars

-----------------------------------------------------------------------------
(***************************************************************************)
(* SpecAnchors: getAnchors and projectGenomicLocation applied to buckets   *)
(* of the pair "A" -> "B".  A bucket has one entry per slot; slot i starts *)
(* at reference position 4i.  All slots carry the entry of one strand's    *)
(* collinear run, except at most two slots that deviate.                   *)
(***************************************************************************)
NumSlots == 6
DeviationCounts == 0..2

Slots == 0..(NumSlots - 1)
QryTop == 4 * NumSlots + 4

\* The collinear entry of slot i on the given strand; long entries reach
\* into the next slot on the reference and stay collinear on the query.
FwdEntry(i, long, qc) ==
    Entry(4 * i, 4 * i + (IF long THEN 6 ELSE 2),
          4 * i + 1, 4 * i + (IF long THEN 4 ELSE 3), 0, qc)
RevEntry(i, long, qc) ==
    Entry(4 * i, 4 * i + (IF long THEN 6 ELSE 2),
          QryTop - 4 * i, QryTop - 4 * i - (IF long THEN 3 ELSE 2), 0, qc)
StrandEntry(rev, i, long, qc) ==
    IF rev THEN RevEntry(i, long, qc) ELSE FwdEntry(i, long, qc)

\* What a slot holds: the run's entry, or a deviation from it.
SlotKinds == {"long", "strand", "chrom", "outlier", "absent"}

SlotEntry(rev, i, kind) ==
    CASE kind = "run" -> <<StrandEntry(rev, i, FALSE, 0)>>
      [] kind = "long" -> <<StrandEntry(rev, i, TRUE, 0)>>
      [] kind = "strand" -> <<StrandEntry(~rev, i, FALSE, 0)>>
      [] kind = "chrom" -> <<StrandEntry(rev, i, FALSE, 1)>>
      [] kind = "outlier" ->
            <<[StrandEntry(rev, NumSlots - 1 - i, FALSE, 0)
                  EXCEPT !.refStart = 4 * i, !.refEnd = 4 * i + 2]>>
      [] kind = "absent" -> <<>>

RECURSIVE BucketFrom(_, _, _)
BucketFrom(rev, kinds, i) ==
    IF i >= NumSlots THEN <<>>
    ELSE SlotEntry(rev, i, kinds[i]) \o BucketFrom(rev, kinds, i + 1)

SlotAssignments ==
    {k \in [Slots -> SlotKinds \cup {"run"}] :
        Cardinality({i \in Slots : k[i] # "run"}) \in DeviationCounts}

Buckets == {BucketFrom(rev, k, 0) : rev \in BOOLEAN, k \in SlotAssignments}

AnchLocs == 0..(4 * NumSlots + 1)

\* The overlap scenario: the entry ref[100,200) -> qry[1000,1100) alone, and
\* the same entry between two collinear forward entries on each side.
OverlapEntry == Entry(100, 200, 1000, 1100, 0, 0)
SingleEntryBucket == <<OverlapEntry>>
FlankedBucket ==
    <<Entry(0, 10, 900, 910, 0, 0), Entry(50, 60, 950, 960, 0, 0),
      OverlapEntry,
      Entry(250, 260, 1150, 1160, 0, 0), Entry(300, 310, 1200, 1210, 0, 0)>>
OverlapCoords == Coords(0, 150)

\* Ten collinear forward entries that point to the query chromosomes 0 and 1
\* in turn, five to each.
TieBucket ==
    [i \in 1..10 |->
        Entry(10 * i, 10 * i + 4, 100 + 10 * i, 104 + 10 * i, 0, i % 2)]
TieCoords == {Coords(0, 47), Coords(0, 57), Coords(0, 62)}

AnchInputs ==
    (Buckets \X ({Coords(0, l) : l \in AnchLocs} \cup {Coords(1, 0)}))
    \cup ({SingleEntryBucket, FlankedBucket} \X {OverlapCoords})
    \cup ({TieBucket} \X TieCoords)

AnchInit ==
    /\ BatchUnused
    /\ LisUnused
    /\ stdlibChecks \in BOOLEAN
    /\ mapOrderAsc \in BOOLEAN
    /\ \E in \in AnchInputs :
          /\ pwalns_ = [sp1 \in {"A"} |->
                           [sp2 \in {"B"} |-> [c \in {0} |-> in[1]]]]
          /\ anchCoords = in[2]
    /\ chroms_ = <<"chr0", "chr1">>
    /\ genomeSizes_ = [sp \in {"A"} |-> 100]
    /\ halfLifeDistance_ = 20
    /\ anchPc = "start"
    /\ anchOut = Unused
    /\ projOut = Unused
    /\ SearchUnused
    /\ LoadUnused
    /\ SizesUnused
    /\ ScanUnused

\* A call of getAnchors(pwaln, refCoords).
AnchCallGetAnchors ==
    /\ anchPc = "start"
    /\ anchOut' = GetAnchors(pwalns_["A"]["B"], anchCoords,
                             mapOrderAsc, stdlibChecks)
    /\ anchPc' = "anchors"
    /\ UNCHANGED <<batchVars, stdlibChecks, lisVars, ippVars, anchCoords,
                   projOut, searchVars,
                   loadVars, sizesVars, scanVars>>

\* A call of projectGenomicLocation(refSpecies, qrySpecies, refCoords, s).
AnchCallProject ==
    /\ anchPc = "anchors"
    /\ projOut' = ProjectGenomicLocation(
                      pwalns_, genomeSizes_, "A", "B", anchCoords,
                      GetScalingFactor(halfLifeDistance_, genomeSizes_["A"]),
                      mapOrderAsc, stdlibChecks)
    /\ anchPc' = "projected"
    /\ UNCHANGED <<batchVars, stdlibChecks, lisVars, ippVars, anchCoords,
                   anchOut, searchVars,
                   loadVars, sizesVars, scanVars>>

AnchNext == AnchCallGetAnchors \/ AnchCallProject

SpecAnchors == AnchInit /\ [][AnchNext]_vars

-----------------------------------------------------------------------------
(***************************************************************************)
(* SpecSearch: Ipp::projectCoord on stores over the species "A", "B" and   *)
(* "C".  Every pair of the store is absent or holds one bucket, for        *)
(* chromosome 0, that maps the reference one-to-one onto the query: the    *)
(* dense bucket has an entry every 10 positions, the sparse bucket has a   *)
(* gap between 24 and 70.                                                  *)
(***************************************************************************)
MaxPops == 10

Species == {"A", "B", "C"}
SearchQueries == Species \cup {"D"}

\* std::string::operator< on the species names.
SpeciesLess(a, b) ==
    \/ a = "A" /\ b \in {"B", "C"}
    \/ a = "B" /\ b = "C"

Block(s) == Entry(s, s + 4, s, s + 4, 0, 0)
DenseBucket == [i \in 1..10 |-> Block(10 * (i - 1))]
SparseBucket ==
    <<Block(0), Block(10), Block(20), Block(70), Block(80), Block(90)>>

PairKinds(r, q) ==
    IF r = q THEN {"absent"}
    ELSE IF q = "A" THEN {"absent", "dense"}
    ELSE {"absent", "dense", "sparse"}

PwalnOf(kind) ==
    [c \in {0} |-> IF kind = "dense" THEN DenseBucket ELSE SparseBucket]

\* pwalns_ as loadPwalns builds it: a reference species is a key only if it
\* has at least one pairwise alignment.
StoreFrom(k) ==
    [r \in {r \in Species : \E q \in Species : k[r][q] # "absent"} |->
        [q \in {q \in Species : k[r][q] # "absent"} |-> PwalnOf(k[r][q])]]

Stores ==
    {StoreFrom(k) :
        k \in {k \in [Species -> [Species -> {"absent", "dense", "sparse"}]] :
                  \A r, q \in Species : k[r][q] \in PairKinds(r, q)}}

\* genomeSizes_ : loadGenomeSizes records a size for every key that pwalns_
\* has at the time of the call (line 129); a later loadPwalns replaces the
\* store and leaves genomeSizes_ alone, so the species of the two members
\* need not agree.
GenomeSizeChoices ==
    {[sp \in Species |-> 100],
     [sp \in Species |-> IF sp = "B" THEN 50 ELSE 100],
     [sp \in {"A", "C"} |-> 100],
     <<>>}

\* Location 12 lies on an entry of both buckets, 32 on an entry of the dense
\* bucket only, 45 on no entry; chromosome 1 has no bucket.
SearchCoords == {Coords(0, 12), Coords(0, 32), Coords(0, 45), Coords(1, 12)}

\* struct OrangeEntry (lines 271-286).
OrangeEntry(score, species, coords) ==
    [score |-> score, species |-> species, coords |-> coords]

\* Coords::operator< (ipp.h): by chromosome, then by location.
CoordsLess(a, b) ==
    a.chrom < b.chrom \/ (a.chrom = b.chrom /\ a.loc < b.loc)

\* OrangeEntry::operator< (lines 282-285).
OrangeLess(a, b) ==
    \/ ScoreLess(a.score, b.score)
    \/ /\ ScoreEq(a.score, b.score)
       /\ \/ SpeciesLess(a.species, b.species)
          \/ a.species = b.species /\ CoordsLess(a.coords, b.coords)

\* line 291: orange.top().
Top(q) == CHOOSE e \in q : \A f \in q \ {e} : OrangeLess(f, e)

\* line 292: orange.pop().
KeepTop(q, e) == q
RemoveTop(q, e) == q \ {e}

\* An entry of ShortestPath (lines 269 and 348-353).
PathEntry(score, prev, coords, anchors) ==
    [score |-> score, prevSpecies |-> prev, coords |-> coords,
     anchors |-> anchors]

\* lines 294-296: the species was already reached by a faster path.
NeverStale(path, cur) == FALSE
IsStale(path, cur) ==
    cur.species \in DOMAIN path
    /\ ScoreLess(cur.score, path[cur.species].score)

\* lines 314-317: nxtSpecies cannot be reached faster through current.
CannotImprove(path, cur, nxt) ==
    nxt \in DOMAIN path /\ ScoreLeq(cur.score, path[nxt].score)

\* lines 342-343: the path to nxtSpecies is saved only if it is faster.
ImprovesAlways(path, nxt, nxtScore) == TRUE
Improves(path, nxt, nxtScore) ==
    ~(nxt \in DOMAIN path /\ ScoreLeq(nxtScore, path[nxt].score))

\* lines 348-353: shortestPath[nxtSpecies] = {...}.
WithEntry(path, nxt, entry) ==
    [sp \in DOMAIN path \cup {nxt} |-> IF sp = nxt THEN entry ELSE path[sp]]

SearchInit ==
    /\ BatchUnused
    /\ LisUnused
    /\ AnchUnused
    /\ stdlibChecks \in BOOLEAN
    /\ mapOrderAsc \in BOOLEAN
    /\ chroms_ = <<"chr0", "chr1">>
    /\ pwalns_ \in Stores
    /\ LoadUnused
    /\ SizesUnused
    /\ ScanUnused
    /\ genomeSizes_ \in GenomeSizeChoices
    /\ halfLifeDistance_ = 20
    /\ searchRef = Unused
    /\ searchQry = Unused
    /\ searchCoords = NoCoord
    /\ searchScaling = NoScaling
    /\ shortestPath = <<>>
    /\ direct = <<>>
    /\ orange = {}
    /\ current = NoEntry
    /\ todo = {}
    /\ searchPc = "start"
    /\ pops = 0
    /\ expanded = <<>>

searchInputs == <<searchRef, searchQry, searchCoords>>
otherVars == <<batchVars, stdlibChecks, lisVars, ippVars, anchVars,
               loadVars, sizesVars, scanVars>>

\* lines 253-288 for the arguments ref, qry and coords: the scaling factor,
\* the entry of refSpecies and the first entry of the queue;
\* genomeSizes_.at(refSpecies) throws std::out_of_range.
StartWith(ref, qry, coords) ==
    /\ searchRef' = ref
    /\ searchQry' = qry
    /\ searchCoords' = coords
    /\ IF ref \notin DOMAIN genomeSizes_
       THEN /\ searchPc' = "thrown"
            /\ UNCHANGED <<searchScaling, shortestPath, orange>>
       ELSE /\ searchScaling' = GetScalingFactor(halfLifeDistance_,
                                                 genomeSizes_[ref])
            /\ shortestPath' = [sp \in {ref} |->
                                   PathEntry(ScoreOne, "", coords, <<>>)]
            /\ orange' = {OrangeEntry(ScoreOne, ref, coords)}
            /\ searchPc' = "loop"

\* A call of projectCoord(refSpecies, qrySpecies, refCoords).
SearchStart ==
    /\ searchPc = "start"
    /\ \E qry \in SearchQueries, coords \in SearchCoords :
          StartWith("A", qry, coords)
    /\ UNCHANGED <<otherVars, direct, current, todo, pops, expanded>>

\* Where the loop goes after the pop of top (lines 294-312):
\* continue, break, the throw of pwalns_.at(current.species), or the for loop.
AfterPop(top) ==
    IF IsStale(shortestPath, top) THEN "loop"
    ELSE IF top.species = searchQry THEN "returned"
    ELSE IF top.species \notin DOMAIN pwalns_ THEN "thrown"
    ELSE IF DOMAIN pwalns_[top.species] = {} THEN "loop"
    ELSE "for"

\* The pop of top reaches the for loop of line 312 (with no neighbour to
\* visit when the map of top.species is empty).
Expands(top) ==
    /\ ~IsStale(shortestPath, top)
    /\ top.species # searchQry
    /\ top.species \in DOMAIN pwalns_

\* lines 291-312 for the entry top = orange.top().
PopEntry(top) ==
    /\ current' = top
    /\ orange' = RemoveTop(orange, top)
    /\ pops' = pops + 1
    /\ expanded' = IF Expands(top)
                   THEN Append(expanded,
                               [species |-> top.species,
                                entry |-> shortestPath[top.species]])
                   ELSE expanded
    /\ searchPc' = AfterPop(top)
    /\ todo' = IF AfterPop(top) = "for" THEN DOMAIN pwalns_[top.species]
               ELSE {}

\* lines 290-312: one pass through the head of the while loop.
Pop ==
    /\ searchPc = "loop"
    /\ orange # {}
    /\ pops < MaxPops
    /\ PopEntry(Top(orange))
    /\ UNCHANGED <<otherVars, searchInputs, searchScaling, shortestPath,
                   direct>>

\* lines 290 and 358: the queue is empty, coordProjection is returned.
Return ==
    /\ searchPc = "loop"
    /\ orange = {}
    /\ searchPc' = "returned"
    /\ UNCHANGED <<otherVars, searchInputs, searchScaling, shortestPath,
                   direct, orange, current, todo, pops, expanded>>

\* The for loop moves on from nxt (lines 312 and 317, 332, 343).
Advance(nxt) ==
    /\ todo' = todo \ {nxt}
    /\ searchPc' = IF todo \ {nxt} = {} THEN "loop" ELSE "for"

\* lines 336-354 for the projection proj and nxtScore.
Save(nxt, proj, nxtScore) ==
    /\ direct' = IF current.species = searchRef /\ nxt = searchQry
                 THEN <<proj>> ELSE direct
    /\ IF Improves(shortestPath, nxt, nxtScore)
       THEN /\ shortestPath' =
                  WithEntry(shortestPath, nxt,
                            PathEntry(nxtScore, current.species,
                                      proj.nextCoords, proj.anchors))
            /\ orange' = orange \cup
                  {OrangeEntry(nxtScore, nxt, proj.nextCoords)}
       ELSE UNCHANGED <<shortestPath, orange>>
    /\ Advance(nxt)

\* lines 327-354 for the outcome proj of projectGenomicLocation: an
\* exception leaves projectCoord, a failed assert or library check stops the
\* process.
RelaxWith(nxt, proj) ==
    IF proj.kind = "none"
    THEN Advance(nxt) /\ UNCHANGED <<shortestPath, direct, orange>>
    ELSE IF proj.kind = "result"
    THEN Save(nxt, [score |-> proj.score, nextCoords |-> proj.nextCoords,
                    anchors |-> proj.anchors],
              ScoreMul(current.score, proj.score))
    ELSE /\ searchPc' = IF proj.kind = "throw" THEN "thrown" ELSE "aborted"
         /\ todo' = {}
         /\ UNCHANGED <<shortestPath, direct, orange>>

\* lines 312-355: one pass through the body of the for loop, for the
\* neighbour nxt; the neighbours are visited in any order, whatever the
\* iteration order of the map pwalns_ is.
Relax(nxt) ==
    /\ searchPc = "for"
    /\ nxt \in todo
    /\ IF CannotImprove(shortestPath, current, nxt)
       THEN Advance(nxt) /\ UNCHANGED <<shortestPath, direct, orange>>
       ELSE RelaxWith(nxt,
                ProjectGenomicLocation(pwalns_, genomeSizes_, current.species,
                                       nxt, current.coords, searchScaling,
                                       mapOrderAsc, stdlibChecks))
    /\ UNCHANGED <<otherVars, searchInputs, searchScaling, current, pops,
                   expanded>>

SearchNext ==
    \/ SearchStart
    \/ Pop
    \/ \E nxt \in Species : Relax(nxt)
    \/ Return

SpecSearch == SearchInit /\ [][SearchNext]_vars

-----------------------------------------------------------------------------
(* Helpers for the claims about projectCoords. *)
RECURSIVE CountIn(_, _)
CountIn(s, x) ==
    IF s = <<>> THEN 0
    ELSE (IF s[1] = x THEN 1 ELSE 0) + CountIn(Tail(s), x)

BatchOver == mainPc \in {"returned", "raised"}
AllWorkersDone == \A w \in WorkersOf(nCores) : pc[w] = "done"
InCallback(w) == pc[w] = "in_cb"
InPop(w) == pc[w] \in {"get_job", "pop_back"}
InException(w) == pc[w] = "in_exc"

\* Number of workers that popped coord c and have not yet reported it.
InFlight(c) ==
    Cardinality({w \in Threads :
        /\ pc[w] \in {"project", "lock_cb", "in_cb"}
        /\ refCoord[w] = c})

NoProjectionRaises == \A i \in 1..Len(refCoords) : refCoords[i] \notin throws

(* C1: if a projection raises inside a worker, projectCoords ends by
   re-raising to its caller, after all workers have finished, for every
   nCores (the inline case included). *)
C1_ExceptionReachesCaller ==
    BatchOver =>
        /\ AllWorkersDone
        /\ hadWorkerException => mainPc = "raised"

(* C2: when no projection raises, every element of refCoords is popped by
   exactly one worker and reported by exactly one callback (no job lost,
   none processed twice), and projectCoords returns only after all of the
   callbacks have run. *)
C2_EveryJobOnce ==
    NoProjectionRaises =>
        /\ \A c \in JobCoords :
              CountIn(jobs, c) + InFlight(c) + CountIn(calls, c)
                 = CountIn(refCoords, c)
        /\ BatchOver =>
              /\ mainPc = "returned"
              /\ \A c \in JobCoords : CountIn(calls, c) = CountIn(refCoords, c)

C2_Witness ==
    /\ BatchOver
    /\ NoProjectionRaises
    /\ nCores >= 2
    /\ Len(refCoords) >= 2
    /\ Len(calls) = Len(refCoords)

(* C3: with nCores >= 2 at most one worker is inside the callback at any
   time, no worker is inside the pop while another is inside the pop or the
   callback, and the projection runs without the lock. *)
C3_CriticalSections ==
    nCores >= 2 =>
        /\ \A w1, w2 \in Threads :
              w1 # w2 =>
                 /\ ~(InCallback(w1) /\ InCallback(w2))
                 /\ ~(InPop(w1) /\ (InPop(w2) \/ InCallback(w2)))
        /\ \A w \in Threads :
              /\ (InCallback(w) \/ InPop(w)) => mutex = w
              /\ pc[w] = "project" => mutex # w

C3_Witness ==
    /\ nCores >= 2
    /\ \E w1, w2, w3 \in Threads :
          /\ InCallback(w1)
          /\ pc[w2] = "project"
          /\ pc[w3] = "lock_pop"

-----------------------------------------------------------------------------
(* Reference definitions for the claims about longestSubsequence. *)

\* Every element passes the filter and consecutive elements do not overlap
\* on the query axis.
RECURSIVE IsChain(_, _)
IsChain(t, rev) ==
    IF t = <<>> THEN TRUE
    ELSE /\ Filter(t[1], rev)
         /\ Len(t) >= 2 => QryHi(t[1], rev) <= QryLo(t[2], rev)
         /\ IsChain(Tail(t), rev)

\* The elements of seq at the positions in I, in the order of seq.
RECURSIVE Pick(_, _, _)
Pick(seq, I, k) ==
    IF k > Len(seq) THEN <<>>
    ELSE IF k \in I THEN <<seq[k]>> \o Pick(seq, I, k + 1)
    ELSE Pick(seq, I, k + 1)

SubsequencesOf(seq) == {Pick(seq, I, 1) : I \in SUBSET (1..Len(seq))}

\* Length of the longest chain, by exhaustive search.
BruteLongest(seq, rev) ==
    LET lens == {Len(t) : t \in {x \in SubsequencesOf(seq) : IsChain(x, rev)}}
    IN  CHOOSE n \in lens : \A k \in lens : k <= n

NoneFiltered(seq, rev) == \A k \in 1..Len(seq) : ~Filter(seq[k], rev)

HelperContract(seq, rev, out) ==
    /\ ~out.abort
    /\ out.res \in SubsequencesOf(seq)
    /\ IsChain(out.res, rev)
    /\ Len(out.res) = BruteLongest(seq, rev)
    /\ NoneFiltered(seq, rev) => out.res = <<>>

(* C9: for every sequence sorted by ref_start and each strand filter the
   helper returns a subsequence whose elements all pass the filter, whose
   consecutive elements satisfy qry_hi(a) <= qry_lo(b), which is as long as
   the longest such subsequence; and the result is empty when no element
   passes the filter. *)
C9_HelperLongestChain ==
    lisPc \in {"helper", "wrapped"} => HelperContract(lisSeq, lisRev, lisOut)

(* The same contract where back() on the empty m is not trapped: it holds
   there, so the undefined call of line 755 is the only divergence. *)
C9_HoldsWithoutTrap ==
    (lisPc \in {"helper", "wrapped"} /\ ~stdlibChecks)
        => HelperContract(lisSeq, lisRev, lisOut)

C9_TrapReached ==
    /\ lisPc = "helper"
    /\ lisOut.abort
    /\ lisSeq # <<>>
    /\ NoneFiltered(lisSeq, lisRev)

-----------------------------------------------------------------------------
(* Claims about getAnchors and projectGenomicLocation. *)
AnchBucket == pwalns_["A"]["B"][0]
AnchCalled == anchPc \in {"anchors", "projected"}
AnchReturned == AnchCalled /\ anchOut.kind = "anchors"
OverlapReturned == AnchReturned /\ anchOut.upstream = anchOut.downstream
FlanksReturned == AnchReturned /\ anchOut.upstream # anchOut.downstream

WellFormed(bucket) ==
    /\ \A k \in 1..Len(bucket) :
          /\ bucket[k].refStart < bucket[k].refEnd
          /\ bucket[k].qryStart # bucket[k].qryEnd
    /\ \A k \in 1..(Len(bucket) - 1) : bucket[k].refStart <= bucket[k + 1].refStart

Contains(e, refLoc) == e.refStart <= refLoc /\ refLoc < e.refEnd
MinDist(e, refLoc) == Min(refLoc - e.refStart, e.refEnd - refLoc)

\* The position inside block e that corresponds to refLoc, counted from the
\* lower query bound of e.
InsideBlock(e, refLoc) ==
    LET lo == Min(e.qryStart, e.qryEnd)
        hi == IF e.qryStart < e.qryEnd THEN e.qryEnd ELSE e.qryStart
    IN  lo + ((refLoc - e.refStart) * (hi - lo)) \div (e.refEnd - e.refStart)

(* C7 as stated: with the single forward entry e = ref[100,200) ->
   qry[1000,1100) on chrom 0 as the whole pwaln, the projection of loc 150
   on chrom 0 is a result with qry_chrom 0, qry_loc 1050, score 1.0 and
   anchors (e, e). *)
C7_SingleEntryProjects ==
    (anchPc = "projected" /\ AnchBucket = SingleEntryBucket
        /\ anchCoords = OverlapCoords)
    => /\ projOut.kind = "result"
       /\ projOut.nextCoords = Coords(0, 1050)
       /\ ScoreEq(projOut.score, ScoreOne)
       /\ projOut.anchors = [upstream |-> OverlapEntry, downstream |-> OverlapEntry]

(* C7 amended: the single entry alone yields none; whenever getAnchors
   returns an overlapping entry e as (e, e) the projection is a result with
   score 1.0, the query chromosome of e and the location interpolated
   inside the block of e; with e between two collinear forward entries on
   each side a returned projection of loc 150 is (chrom 0, 1050). *)
C7_OverlapInterpolates ==
    anchPc = "projected" =>
       /\ (AnchBucket = SingleEntryBucket /\ anchCoords = OverlapCoords)
             => projOut.kind = "none"
       /\ OverlapReturned =>
             /\ Contains(anchOut.upstream, anchCoords.loc)
             /\ projOut.kind = "result"
             /\ ScoreEq(projOut.score, ScoreOne)
             /\ projOut.nextCoords =
                   Coords(anchOut.upstream.qryChrom,
                          InsideBlock(anchOut.upstream, anchCoords.loc))
             /\ projOut.anchors = [upstream |-> anchOut.upstream,
                                   downstream |-> anchOut.upstream]
       /\ (AnchBucket = FlankedBucket /\ anchCoords = OverlapCoords)
             => /\ projOut.kind # "none"
                /\ projOut.kind = "result" =>
                      /\ projOut.nextCoords = Coords(0, 1050)
                      /\ projOut.anchors.upstream = OverlapEntry

C7_Witness ==
    /\ anchPc = "projected"
    /\ AnchBucket = FlankedBucket
    /\ anchCoords = OverlapCoords
    /\ projOut.kind = "result"
    /\ projOut.nextCoords = Coords(0, 1050)
    /\ ScoreEq(projOut.score, ScoreOne)

\* The collinear subsequence getAnchors selects from.
SelectedFrom ==
    CollinearAnchors(CandidateBuckets(AnchBucket, anchCoords.loc, mapOrderAsc),
                     stdlibChecks).res

(* C8: when the collinear subsequence holds two or more entries that
   contain loc, the entry returned as (that, that) minimises
   min(loc - ref_start, ref_end - loc) over those entries. *)
C8_NearestOverlapReturned ==
    OverlapReturned =>
        \A k \in 1..Len(SelectedFrom) :
            Contains(SelectedFrom[k], anchCoords.loc)
               => MinDist(anchOut.upstream, anchCoords.loc)
                     <= MinDist(SelectedFrom[k], anchCoords.loc)

(* C10: for a well-formed pwaln, whenever getAnchors returns anchors none
   of the asserts of projectGenomicLocation fails: qry_up_start <
   qry_up_end; for distinct flanks qry_up_end <= qry_down_start <
   qry_down_end; ref_left <= loc < ref_right; both anchors have the same
   strand. *)
C10_AssertsHold ==
    /\ AnchReturned =>
          /\ WellFormed(AnchBucket)
          /\ Assert450(anchOut)
          /\ IsQryReversed(anchOut.upstream) = IsQryReversed(anchOut.downstream)
          /\ OverlapReturned =>
                Assert484(anchOut.upstream.refStart, anchCoords.loc,
                          anchOut.upstream.refEnd)
          /\ FlanksReturned =>
                /\ Assert471(anchOut)
                /\ Assert484(anchOut.upstream.refEnd, anchCoords.loc,
                             anchOut.downstream.refStart)
    /\ anchPc = "projected" =>
          /\ projOut.kind # "assert"
          /\ AnchReturned => projOut.kind = "result"

C10_Witness ==
    /\ anchPc = "projected"
    /\ FlanksReturned
    /\ IsQryReversed(anchOut.upstream)
    /\ projOut.kind = "result"
    /\ anchOut.upstream.refEnd < anchCoords.loc

-----------------------------------------------------------------------------
(***************************************************************************)
(* Claims about Ipp::projectCoord, checked under SpecSearch.               *)
(***************************************************************************)
SearchOver == searchPc \in {"returned", "thrown", "aborted"}

\* The species of the store: the reference and the query species of its
\* pairwise alignments.
SpeciesInStore ==
    DOMAIN pwalns_ \cup UNION {DOMAIN pwalns_[r] : r \in DOMAIN pwalns_}

Square(n) == n * n

\* C4: when refSpecies has a loaded genome size, projectCoord returns a
\* CoordProjection and never raises, for any store, any qrySpecies and any
\* coordinate: a hop without a bucket for the chromosome yields no
\* projection and a species without outgoing alignments ends its branch.
C4_ProjectNeverRaises ==
    (searchRef # Unused /\ searchRef \in DOMAIN genomeSizes_)
        => searchPc # "thrown"

\* C5: whenever coordProjection.direct is set and shortestPath holds an
\* entry for qrySpecies, the score of that entry is at least direct.score,
\* at every point of the search loop and in the returned CoordProjection.
C5_QryScoreAtLeastDirect ==
    (direct # <<>> /\ searchQry \in DOMAIN shortestPath)
        => ScoreLeq(direct[1].score, shortestPath[searchQry].score)

\* Witness of C5: projectCoord has returned a path to qrySpecies through a
\* third species whose score is higher than the score of the direct
\* projection.
C5_Witness ==
    /\ searchPc = "returned"
    /\ direct # <<>>
    /\ searchQry \in DOMAIN shortestPath
    /\ shortestPath[searchQry].prevSpecies # searchRef
    /\ ScoreLess(direct[1].score, shortestPath[searchQry].score)

\* C6 as stated, for the calls that raise nothing: the number of pops of the
\* priority queue is at most the square of the number of species in the
\* store.
C6_PopsWithinSpeciesSquared ==
    searchPc \notin {"thrown", "aborted"}
        => pops <= Square(Cardinality(SpeciesInStore))

\* A step of the while loop makes progress: it pops the queue, or it takes
\* a neighbour off the list of the for loop, or it leaves projectCoord.
LoopProgress ==
    \/ searchPc = "start"
    \/ pops' > pops
    \/ searchPc = "for" /\ todo' \subseteq todo /\ todo' # todo
    \/ SearchOver'

\* C6, amended: the search loop ends, and the number of pops of the priority
\* queue is at most the square of the number of species in the store
\* counted together with refSpecies.  The loop ends because every one of its
\* steps makes progress, the pops are bounded and the for loop visits each
\* neighbour once.
C6_LoopEndsWithinBound ==
    /\ [](pops <= Square(Cardinality(SpeciesInStore \cup {"A"})))
    /\ [][LoopProgress]_vars

\* Witness of C6: projectCoord has returned after the queue ran empty, with
\* four pops, one of them of an entry that had gone stale.
C6_Witness ==
    /\ searchPc = "returned"
    /\ orange = {}
    /\ pops = 4
    /\ Cardinality(SpeciesInStore) = 3

\* C15: in the search loop every species is expanded (popped without being
\* skipped as stale, its neighbours relaxed) at most once; once a species
\* has been expanded its shortestPath entry (score, prevSpecies, coords,
\* anchors) never changes again; the entry of refSpecies stays
\* (1.0, "", refCoords, {}) throughout.
C15_ExpandedOnceAndSettled ==
    /\ \A i, j \in DOMAIN expanded :
          expanded[i].species = expanded[j].species => i = j
    /\ \A i \in DOMAIN expanded :
          shortestPath[expanded[i].species] = expanded[i].entry
    /\ searchRef \in DOMAIN shortestPath =>
          shortestPath[searchRef] = PathEntry(ScoreOne, "", searchCoords, <<>>)

\* C15 witness: a finished search that has expanded three species, has
\* popped an entry that had gone stale, and has improved the entry of a
\* species before expanding it.
C15_Witness ==
    /\ searchPc = "returned"
    /\ Len(expanded) = 3
    /\ pops > Len(expanded)
    /\ \E i \in DOMAIN expanded :
          expanded[i].entry.prevSpecies \notin {"", searchRef}

-----------------------------------------------------------------------------
(***************************************************************************)
(* SpecLoad: Ipp::loadPwalns.  The file is a sequence of items, each one   *)
(* thing the loader reads in one piece: an integer, a null-terminated      *)
(* string, or the block of entries of one bucket.  A truncated file is a   *)
(* prefix of a well-formed one.                                            *)
(***************************************************************************)
IntItem(n) == [kind |-> "int", val |-> <<n>>]
StrItem(str) == [kind |-> "str", val |-> <<str>>]
BlockItem(entries) == [kind |-> "entries", val |-> entries]

RECURSIVE BucketItems(_)
BucketItems(buckets) ==
    IF buckets = <<>> THEN <<>>
    ELSE <<IntItem(Len(buckets[1])), BlockItem(buckets[1])>>
            \o BucketItems(Tail(buckets))

RECURSIVE Sp2Items(_)
Sp2Items(sp2s) ==
    IF sp2s = <<>> THEN <<>>
    ELSE <<StrItem(sp2s[1].name), IntItem(Len(sp2s[1].buckets))>>
            \o BucketItems(sp2s[1].buckets) \o Sp2Items(Tail(sp2s))

RECURSIVE Sp1Items(_)
Sp1Items(sp1s) ==
    IF sp1s = <<>> THEN <<>>
    ELSE <<StrItem(sp1s[1].name), IntItem(Len(sp1s[1].sp2s))>>
            \o Sp2Items(sp1s[1].sp2s) \o Sp1Items(Tail(sp1s))

\* The file format of lines 46-71.
ItemsOf(content) ==
    <<IntItem(Len(content.chroms))>>
        \o [k \in 1..Len(content.chroms) |-> StrItem(content.chroms[k])]
        \o <<IntItem(Len(content.sp1s))>>
        \o Sp1Items(content.sp1s)

BucketOnChrom(c) == <<Entry(0, 4, 0, 4, c, 0), Entry(10, 14, 10, 14, c, 0)>>

EmptyContent == [chroms |-> <<>>, sp1s |-> <<>>]
OnePairContent ==
    [chroms |-> <<"chr0">>,
     sp1s |-> <<[name |-> "A",
                 sp2s |-> <<[name |-> "B",
                             buckets |-> <<BucketOnChrom(0)>>]>>]>>]
TwoSpeciesContent ==
    [chroms |-> <<"chr0", "chr1">>,
     sp1s |-> <<[name |-> "A",
                 sp2s |-> <<[name |-> "B",
                             buckets |-> <<BucketOnChrom(0),
                                           BucketOnChrom(1)>>],
                            [name |-> "C",
                             buckets |-> <<BucketOnChrom(0)>>]>>],
                [name |-> "B",
                 sp2s |-> <<[name |-> "A",
                             buckets |-> <<BucketOnChrom(1)>>]>>]>>]
Contents == {EmptyContent, OnePairContent, TwoSpeciesContent}

\* The files with the format of one content: the well-formed file, each of
\* its truncations, and the well-formed file followed by one more item.
FilesOf(items) ==
    {[opens |-> TRUE, items |-> SubSeq(items, 1, k)] : k \in 0..Len(items)}
    \cup {[opens |-> TRUE, items |-> Append(items, IntItem(0))]}

\* The files: one that cannot be opened, and the files of every content.
LoadFiles == {NoFile} \cup UNION {FilesOf(ItemsOf(c)) : c \in Contents}

\* The store a previous, successful call of loadPwalns has left.
EarlierStore ==
    [chroms |-> <<"chrX">>,
     pwalns |-> [sp1 \in {"A"} |->
                    [sp2 \in {"C"} |-> [c \in {0} |-> BucketOnChrom(0)]]]]
NoStore == [chroms |-> <<>>, pwalns |-> <<>>]

LoadInit ==
    /\ BatchUnused
    /\ LisUnused
    /\ AnchUnused
    /\ SearchUnused
    /\ SizesUnused
    /\ ScanUnused
    /\ stdlibChecks = FALSE
    /\ storeBefore \in {NoStore, EarlierStore}
    /\ chroms_ = storeBefore.chroms
    /\ pwalns_ = storeBefore.pwalns
    /\ genomeSizes_ = <<>>
    /\ halfLifeDistance_ = 0
    /\ mapOrderAsc = TRUE
    /\ loadFile \in LoadFiles
    /\ loadPos = 0
    /\ loadPc = "start"
    /\ loadLeft = [chroms |-> 0, sp1 |-> 0, sp2 |-> 0, buckets |-> 0]
    /\ loadCur = [sp1 |-> "", sp2 |-> ""]

notLoadVars == <<batchVars, stdlibChecks, lisVars, anchVars, searchVars,
                 sizesVars, scanVars, genomeSizes_, halfLifeDistance_,
                 mapOrderAsc, loadFile, storeBefore>>

\* file.good() after the next read (lines 24-27, 34-37, 106-110).
HasItems(n) == loadPos + n <= Len(loadFile.items)
Item(n) == loadFile.items[loadPos + n]

\* throw std::runtime_error("Unexpected EOF"): the members stay as they are.
ThrowEOF ==
    /\ loadPc' = "failed"
    /\ UNCHANGED <<chroms_, pwalns_, loadPos, loadLeft, loadCur>>

\* The loop counters i, j and k after a bucket, a query species or a
\* reference species is complete (lines 100, 95, 89), as what is left to read
\* and where the loader goes on.
AfterSp1(left) ==
    IF left.sp1 > 1
    THEN [left |-> [left EXCEPT !.sp1 = left.sp1 - 1], pc |-> "sp1"]
    ELSE [left |-> [left EXCEPT !.sp1 = 0], pc |-> "peek"]
AfterSp2(left) ==
    IF left.sp2 > 1
    THEN [left |-> [left EXCEPT !.sp2 = left.sp2 - 1], pc |-> "sp2"]
    ELSE AfterSp1([left EXCEPT !.sp2 = 0])
AfterBucket(left) ==
    IF left.buckets > 1
    THEN [left |-> [left EXCEPT !.buckets = left.buckets - 1],
          pc |-> "bucket"]
    ELSE AfterSp2([left EXCEPT !.buckets = 0])

GoOn(after) == loadLeft' = after.left /\ loadPc' = after.pc

\* operator[] of the maps (lines 92 and 97): the key is created if it is
\* not there yet.
Touch(map, key) == IF key \in DOMAIN map THEN map ELSE WithEntry(map, key, <<>>)

\* pwaln.insert (lines 112-113): an existing key keeps its bucket.  The key
\* is read from pwalnEntries[0]; the files here have no bucket of length 0.
InsertBucket(pwaln, entries) ==
    IF entries[1].refChrom \in DOMAIN pwaln THEN pwaln
    ELSE WithEntry(pwaln, entries[1].refChrom, entries)

\* lines 72-78: the members are cleared, then the file is opened.
LoadCall ==
    /\ loadPc = "start"
    /\ chroms_' = <<>>
    /\ pwalns_' = <<>>
    /\ loadPc' = IF loadFile.opens THEN "numChromosomes" ELSE "failed"
    /\ UNCHANGED <<notLoadVars, loadPos, loadLeft, loadCur>>

\* lines 81-82: numChromosomes.
ReadNumChromosomes ==
    /\ loadPc = "numChromosomes"
    /\ IF ~HasItems(1) THEN ThrowEOF
       ELSE /\ loadPos' = loadPos + 1
            /\ loadLeft' = [loadLeft EXCEPT !.chroms = Item(1).val[1]]
            /\ loadPc' = IF Item(1).val[1] = 0 THEN "numSp1" ELSE "chrom"
            /\ UNCHANGED <<chroms_, pwalns_, loadCur>>
    /\ UNCHANGED notLoadVars

\* lines 83-85: one chromosome name.
ReadChrom ==
    /\ loadPc = "chrom"
    /\ IF ~HasItems(1) THEN ThrowEOF
       ELSE /\ loadPos' = loadPos + 1
            /\ chroms_' = Append(chroms_, Item(1).val[1])
            /\ loadLeft' = [loadLeft EXCEPT !.chroms = loadLeft.chroms - 1]
            /\ loadPc' = IF loadLeft.chroms = 1 THEN "numSp1" ELSE "chrom"
            /\ UNCHANGED <<pwalns_, loadCur>>
    /\ UNCHANGED notLoadVars

\* line 88: numSp1.
ReadNumSp1 ==
    /\ loadPc = "numSp1"
    /\ IF ~HasItems(1) THEN ThrowEOF
       ELSE /\ loadPos' = loadPos + 1
            /\ loadLeft' = [loadLeft EXCEPT !.sp1 = Item(1).val[1]]
            /\ loadPc' = IF Item(1).val[1] = 0 THEN "peek" ELSE "sp1"
            /\ UNCHANGED <<chroms_, pwalns_, loadCur>>
    /\ UNCHANGED notLoadVars

\* lines 91-92: the name of a reference species and its entry in pwalns_.
ReadSp1 ==
    /\ loadPc = "sp1"
    /\ IF ~HasItems(1) THEN ThrowEOF
       ELSE /\ loadPos' = loadPos + 1
            /\ loadCur' = [loadCur EXCEPT !.sp1 = Item(1).val[1]]
            /\ pwalns_' = Touch(pwalns_, Item(1).val[1])
            /\ loadPc' = "numSp2"
            /\ UNCHANGED <<chroms_, loadLeft>>
    /\ UNCHANGED notLoadVars

\* line 94: numSp2.
ReadNumSp2 ==
    /\ loadPc = "numSp2"
    /\ IF ~HasItems(1) THEN ThrowEOF
       ELSE /\ loadPos' = loadPos + 1
            /\ IF Item(1).val[1] = 0 THEN GoOn(AfterSp1(loadLeft))
               ELSE /\ loadLeft' = [loadLeft EXCEPT !.sp2 = Item(1).val[1]]
                    /\ loadPc' = "sp2"
            /\ UNCHANGED <<chroms_, pwalns_, loadCur>>
    /\ UNCHANGED notLoadVars

\* lines 96-97: the name of a query species and its entry in pwalns_[sp1].
ReadSp2 ==
    /\ loadPc = "sp2"
    /\ IF ~HasItems(1) THEN ThrowEOF
       ELSE /\ loadPos' = loadPos + 1
            /\ loadCur' = [loadCur EXCEPT !.sp2 = Item(1).val[1]]
            /\ pwalns_' = [pwalns_ EXCEPT ![loadCur.sp1] =
                              Touch(pwalns_[loadCur.sp1], Item(1).val[1])]
            /\ loadPc' = "numRefChromEntries"
            /\ UNCHANGED <<chroms_, loadLeft>>
    /\ UNCHANGED notLoadVars

\* line 99: numRefChromEntries.
ReadNumRefChromEntries ==
    /\ loadPc = "numRefChromEntries"
    /\ IF ~HasItems(1) THEN ThrowEOF
       ELSE /\ loadPos' = loadPos + 1
            /\ IF Item(1).val[1] = 0 THEN GoOn(AfterSp2(loadLeft))
               ELSE /\ loadLeft' = [loadLeft EXCEPT !.buckets = Item(1).val[1]]
                    /\ loadPc' = "bucket"
            /\ UNCHANGED <<chroms_, pwalns_, loadCur>>
    /\ UNCHANGED notLoadVars

\* lines 101-113: numPwalnEntries, the bulk read of the entries and the
\* insertion of the bucket.
ReadBucket ==
    /\ loadPc = "bucket"
    /\ IF ~HasItems(2) THEN ThrowEOF
       ELSE /\ loadPos' = loadPos + 2
            /\ pwalns_' = [pwalns_ EXCEPT ![loadCur.sp1][loadCur.sp2] =
                              InsertBucket(pwalns_[loadCur.sp1][loadCur.sp2],
                                           Item(2).val)]
            /\ GoOn(AfterBucket(loadLeft))
            /\ UNCHANGED <<chroms_, loadCur>>
    /\ UNCHANGED notLoadVars

\* lines 118-121: throw std::runtime_error("Remaining data at EOF").
Peek ==
    /\ loadPc = "peek"
    /\ loadPc' = IF HasItems(1) THEN "failed" ELSE "loaded"
    /\ UNCHANGED <<notLoadVars, chroms_, pwalns_, loadPos, loadLeft, loadCur>>

LoadNext ==
    \/ LoadCall
    \/ ReadNumChromosomes
    \/ ReadChrom
    \/ ReadNumSp1
    \/ ReadSp1
    \/ ReadNumSp2
    \/ ReadSp2
    \/ ReadNumRefChromEntries
    \/ ReadBucket
    \/ Peek

SpecLoad == LoadInit /\ [][LoadNext]_vars

-----------------------------------------------------------------------------
(***************************************************************************)
(* Claims about Ipp::loadPwalns, checked under SpecLoad.                   *)
(***************************************************************************)
SameMap(a, b) == DOMAIN a = DOMAIN b /\ \A k \in DOMAIN a : a[k] = b[k]

SamePwalns(a, b) ==
    /\ DOMAIN a = DOMAIN b
    /\ \A r \in DOMAIN a :
          /\ DOMAIN a[r] = DOMAIN b[r]
          /\ \A q \in DOMAIN a[r] : SameMap(a[r][q], b[r][q])

StoreIsEmpty == chroms_ = <<>> /\ DOMAIN pwalns_ = {}
StoreIsAsBefore ==
    chroms_ = storeBefore.chroms /\ SamePwalns(pwalns_, storeBefore.pwalns)

\* C12: if loadPwalns fails at any point (the file cannot be opened, is
\* truncated or has trailing bytes), the store (chroms_ and pwalns_) is
\* afterwards exactly the store from before the call or completely empty,
\* never a partially loaded prefix of the input.
C12_FailedLoadLeavesOldOrEmpty ==
    loadPc = "failed" => (StoreIsAsBefore \/ StoreIsEmpty)

-----------------------------------------------------------------------------
(***************************************************************************)
(* SpecSizes: Ipp::loadGenomeSizes.  A genome size is kept as two 16-bit   *)
(* limbs, Limbs(hi, lo) standing for hi * 2^16 + lo, so that sums beyond   *)
(* 2^32 can be written down; an exact sum may have a hi limb beyond 2^16.  *)
(***************************************************************************)
MaxLines == 3

Low(n) == n % 65536
Carry(n) == n \div 65536

\* The sum of two values as a mathematical integer.
AddExact(a, b) == Limbs(a.hi + b.hi + Carry(a.lo + b.lo), Low(a.lo + b.lo))

\* unsigned genomeSize (line 137): arithmetic modulo 2^32.
WrapUnsigned(v) == Limbs(Low(v.hi), v.lo)

\* genomeSize += ... (line 143).
AddUnsigned(a, b) == WrapUnsigned(AddExact(a, b))

\* std::atoi on the decimal digits after the tab (line 143), for values up
\* to INT_MAX.
RECURSIVE AtoiFrom(_, _)
AtoiFrom(digits, v) ==
    IF digits = <<>> THEN v
    ELSE AtoiFrom(Tail(digits),
                  Limbs(v.hi * 10 + Carry(v.lo * 10 + digits[1]),
                        Low(v.lo * 10 + digits[1])))

Atoi(digits) == AtoiFrom(digits, Limbs(0, 0))

\* A line of a sizes file: whether it has a tab, and the digits after it.
SizeLine(digits) == [tab |-> TRUE, digits |-> digits]
LineWithoutTab == [tab |-> FALSE, digits |-> <<>>]
SizeLines ==
    {SizeLine(<<1>>), SizeLine(<<6, 5, 5, 3, 6>>),
     SizeLine(<<2, 1, 4, 7, 4, 8, 3, 6, 4, 7>>), LineWithoutTab}

SizesFile(lines) == [opens |-> TRUE, lines |-> lines]
NoSizesFile == [opens |-> FALSE, lines |-> <<>>]

\* The directory: one sizes file for "A" of up to MaxLines lines, or none,
\* and when the store also has "B", a file of one line for it, or none.
SizesDirs ==
    LET filesA == {NoSizesFile}
                    \cup {SizesFile(l) : l \in SeqsUpTo(SizeLines, MaxLines)}
        filesB == {NoSizesFile, SizesFile(<<SizeLine(<<1>>)>>)}
    IN  {[sp \in {"A"} |-> a] : a \in filesA}
        \cup {[sp \in {"A", "B"} |-> IF sp = "A" THEN a ELSE b] :
                 a \in filesA, b \in filesB}

SizesInit ==
    /\ BatchUnused
    /\ LisUnused
    /\ AnchUnused
    /\ SearchUnused
    /\ LoadUnused
    /\ ScanUnused
    /\ stdlibChecks = FALSE
    /\ sizeFiles \in SizesDirs
    /\ chroms_ = <<"chr0">>
    /\ pwalns_ = [sp \in DOMAIN sizeFiles |-> <<>>]
    /\ genomeSizes_ \in {<<>>, [sp \in {"C"} |-> Limbs(0, 7)]}
    /\ halfLifeDistance_ = 0
    /\ mapOrderAsc = TRUE
    /\ sizesPc = "start"
    /\ sizesTodo = {}
    /\ sizesCur = ""
    /\ sizesLine = 0
    /\ sizeSum = Limbs(0, 0)

notSizesVars == <<batchVars, stdlibChecks, lisVars, anchVars, searchVars,
                  loadVars, scanVars, chroms_, pwalns_, halfLifeDistance_,
                  mapOrderAsc, sizeFiles>>

\* line 127: genomeSizes_.clear(); line 129: the loop over pwalns_.
SizesCall ==
    /\ sizesPc = "start"
    /\ genomeSizes_' = <<>>
    /\ sizesTodo' = DOMAIN pwalns_
    /\ sizesPc' = "next"
    /\ UNCHANGED <<notSizesVars, sizesCur, sizesLine, sizeSum>>

\* lines 129-137: the next species, in the order of the unordered map; its
\* file is opened and the sum starts at 0.
SizesOpen ==
    /\ sizesPc = "next"
    /\ \E species \in sizesTodo :
          IF sizeFiles[species].opens
          THEN /\ sizesCur' = species
               /\ sizesLine' = 0
               /\ sizeSum' = Limbs(0, 0)
               /\ sizesPc' = "lines"
          ELSE /\ sizesPc' = "failed"
               /\ UNCHANGED <<sizesCur, sizesLine, sizeSum>>
    /\ UNCHANGED <<notSizesVars, genomeSizes_, sizesTodo>>

\* lines 138-144: one line of the file.
SizesReadLine ==
    /\ sizesPc = "lines"
    /\ sizesLine < Len(sizeFiles[sizesCur].lines)
    /\ IF sizeFiles[sizesCur].lines[sizesLine + 1].tab
       THEN /\ sizeSum' =
                  AddUnsigned(sizeSum,
                      Atoi(sizeFiles[sizesCur].lines[sizesLine + 1].digits))
            /\ sizesLine' = sizesLine + 1
            /\ sizesPc' = "lines"
       ELSE /\ sizesPc' = "failed"
            /\ UNCHANGED <<sizeSum, sizesLine>>
    /\ UNCHANGED <<notSizesVars, genomeSizes_, sizesTodo, sizesCur>>

\* line 145: genomeSizes_[species] = genomeSize.
SizesStore ==
    /\ sizesPc = "lines"
    /\ sizesLine = Len(sizeFiles[sizesCur].lines)
    /\ genomeSizes_' = WithEntry(genomeSizes_, sizesCur, sizeSum)
    /\ sizesTodo' = sizesTodo \ {sizesCur}
    /\ sizesPc' = "next"
    /\ UNCHANGED <<notSizesVars, sizesCur, sizesLine, sizeSum>>

\* lines 146-147: the loop is over.
SizesReturn ==
    /\ sizesPc = "next"
    /\ sizesTodo = {}
    /\ sizesPc' = "loaded"
    /\ UNCHANGED <<notSizesVars, genomeSizes_, sizesTodo, sizesCur, sizesLine,
                   sizeSum>>

SizesNext ==
    \/ SizesCall
    \/ SizesOpen
    \/ SizesReadLine
    \/ SizesStore
    \/ SizesReturn

SpecSizes == SizesInit /\ [][SizesNext]_vars

-----------------------------------------------------------------------------
(***************************************************************************)
(* Claims about Ipp::loadGenomeSizes, checked under SpecSizes.             *)
(***************************************************************************)
RECURSIVE ExactSum(_)
ExactSum(lines) ==
    IF lines = <<>> THEN Limbs(0, 0)
    ELSE AddExact(Atoi(lines[1].digits), ExactSum(Tail(lines)))

\* C13: after loadGenomeSizes, the genome size recorded for a species equals
\* the exact arithmetic sum of the second-column integers of all lines of
\* its sizes file, also for sums of 2^32 and more: the accumulation does not
\* wrap around.
C13_SizeIsExactSum ==
    sizesPc = "loaded" =>
        \A species \in DOMAIN genomeSizes_ :
            genomeSizes_[species] = ExactSum(sizeFiles[species].lines)

-----------------------------------------------------------------------------
(***************************************************************************)
(* SpecScan: the neighbor scan of Ipp::getAnchors (lines 521-562), one     *)
(* bucket entry per step, on buckets long enough for the surplus of        *)
(* anchorsUpstream to be cut during the scan.                              *)
(***************************************************************************)
ShortScan == 25
LongScan == 230

\* The reference end of the i-th entry of a bucket of the given shape; the
\* reference start of that entry is i.
ScanShapes == {"ascending", "descending", "cycle", "pairs", "zigzag"}
ShapedRefEnd(shape, i) ==
    CASE shape = "ascending" -> 500 + i
      [] shape = "descending" -> 1000 - i
      [] shape = "cycle" -> 500 + (i % (10 * topn + 10))
      [] shape = "pairs" -> 500 + (i \div 2)
      [] shape = "zigzag" -> IF i % 2 = 0 THEN 500 + i ELSE 1000 - i

\* Entry i of the first part of a bucket; with long entries, every 50th
\* entry reaches beyond 1000.
ShapedEntry(shape, withLong, i) ==
    IF withLong /\ i % 50 = 0
    THEN Entry(i, 1001 + i, 3000 + i, 3001 + i, 0, 0)
    ELSE Entry(i, ShapedRefEnd(shape, i), 3000 + i, 3001 + i, 0, i % 2)

\* Entry j of the second part of a bucket: short entries beyond 1000.
LateEntry(j) == Entry(1000 + 2 * j, 1001 + 2 * j, 5000 + j, 5001 + j, 0, 0)

\* A bucket, sorted by refStart, with refStart < refEnd in every entry.
ShapedBucket(shape, withLong, nFirst, nLate) ==
    [i \in 1..nFirst |-> ShapedEntry(shape, withLong, i)]
        \o [j \in 1..nLate |-> LateEntry(j)]

ScanBuckets ==
    {ShapedBucket(shape, withLong, nFirst, nLate) :
        shape \in ScanShapes, withLong \in BOOLEAN,
        nFirst \in {ShortScan, LongScan},
        nLate \in {0, topn - 1, topn, topn + 5}}
    \cup {ShapedBucket("pairs", withLong, 2 * LongScan, topn + 5) :
             withLong \in BOOLEAN}

ScanLocs == {700, 1000}

ScanInit ==
    /\ BatchUnused
    /\ LisUnused
    /\ IppUnused
    /\ AnchUnused
    /\ SearchUnused
    /\ LoadUnused
    /\ SizesUnused
    /\ stdlibChecks = FALSE
    /\ scanBucket \in ScanBuckets
    /\ scanLoc \in ScanLocs
    /\ scanNext = 0
    /\ scanBuckets = NoBuckets
    /\ scanPc = "start"

notScanVars == <<batchVars, stdlibChecks, lisVars, ippVars, anchVars,
                 searchVars, loadVars, sizesVars, scanBucket, scanLoc>>

\* lines 523-527: the three empty containers and the begin of the range-for.
ScanStart ==
    /\ scanPc = "start"
    /\ scanNext' = 1
    /\ scanBuckets' = NoBuckets
    /\ scanPc' = "scan"
    /\ UNCHANGED notScanVars

\* lines 528-538: an upstream entry.
ScanUpstream ==
    /\ scanPc = "scan"
    /\ scanNext <= Len(scanBucket)
    /\ IsUpstream(scanBucket[scanNext], scanLoc)
    /\ scanBuckets' = [scanBuckets EXCEPT !.up =
                          InsertUpstream(scanBuckets.up, scanBucket[scanNext])]
    /\ scanNext' = scanNext + 1
    /\ UNCHANGED <<notScanVars, scanPc>>

\* lines 539-549: a downstream entry; the scan breaks at the topn-th one.
ScanDownstream ==
    /\ scanPc = "scan"
    /\ scanNext <= Len(scanBucket)
    /\ ~IsUpstream(scanBucket[scanNext], scanLoc)
    /\ IsDownstream(scanBucket[scanNext], scanLoc)
    /\ scanBuckets' = [scanBuckets EXCEPT !.down =
                          Append(scanBuckets.down, scanBucket[scanNext])]
    /\ scanNext' = scanNext + 1
    /\ scanPc' = IF Len(scanBuckets.down) + 1 = topn THEN "trim" ELSE "scan"
    /\ UNCHANGED notScanVars

\* lines 550-555: an entry that contains refLoc.
ScanOverlap ==
    /\ scanPc = "scan"
    /\ scanNext <= Len(scanBucket)
    /\ ~IsUpstream(scanBucket[scanNext], scanLoc)
    /\ ~IsDownstream(scanBucket[scanNext], scanLoc)
    /\ scanBuckets' = [scanBuckets EXCEPT !.ov =
                          Append(scanBuckets.ov, scanBucket[scanNext])]
    /\ scanNext' = scanNext + 1
    /\ UNCHANGED <<notScanVars, scanPc>>

\* line 527: the range-for is at the end of the bucket.
ScanEnd ==
    /\ scanPc = "scan"
    /\ scanNext > Len(scanBucket)
    /\ scanPc' = "trim"
    /\ UNCHANGED <<notScanVars, scanNext, scanBuckets>>

\* lines 558-562: the upstream anchors are cut to the topn closest.
ScanTrim ==
    /\ scanPc = "trim"
    /\ scanBuckets' = TrimUpstream(scanBuckets)
    /\ scanPc' = "scanned"
    /\ UNCHANGED <<notScanVars, scanNext>>

ScanNext ==
    \/ ScanStart
    \/ ScanUpstream
    \/ ScanDownstream
    \/ ScanOverlap
    \/ ScanEnd
    \/ ScanTrim

SpecScan == ScanInit /\ [][ScanNext]_vars

-----------------------------------------------------------------------------
(***************************************************************************)
(* Claims about the neighbor scan, checked under SpecScan.                 *)
(***************************************************************************)
\* The reference ends of the entries of the whole bucket that end at or
\* before loc, and how many of them are larger than r.
UpstreamEnds(bucket, loc) ==
    {bucket[i].refEnd : i \in {j \in 1..Len(bucket) : bucket[j].refEnd <= loc}}
LargerEnds(ends, r) == Cardinality({x \in ends : x > r})

\* The first entry of the bucket with reference end r: the one a set keyed
\* by refEnd holds.
FirstWithEnd(bucket, r) ==
    LET at == {i \in 1..Len(bucket) : bucket[i].refEnd = r}
    IN  bucket[CHOOSE i \in at : \A j \in at : i <= j]

\* The topn largest of the ends, largest first, each with its entry.
ClosestUpstream(bucket, ends) ==
    LET kept  == {r \in ends : LargerEnds(ends, r) < topn}
    IN  [i \in 1..Cardinality(kept) |->
            FirstWithEnd(bucket,
                         CHOOSE r \in kept : LargerEnds(kept, r) = i - 1)]

\* A scan of the whole bucket followed by one truncation.
FullScan(bucket, loc) ==
    [up |-> ClosestUpstream(bucket, UpstreamEnds(bucket, loc)),
     ov |-> SelectSeq(bucket, LAMBDA e : e.refStart <= loc /\ loc < e.refEnd),
     down |-> FirstN(SelectSeq(bucket, LAMBDA e : e.refStart > loc), topn)]

\* C14: for a bucket sorted ascending by refStart and any loc, the neighbor
\* scan with its early stop and its amortised truncation ends with the same
\* three buckets as a scan of the whole bucket followed by one truncation:
\* upstream the topn entries with the largest refEnd among those with
\* refEnd <= loc (a set keyed by refEnd), overlap every entry with
\* refStart <= loc < refEnd, downstream the first topn entries with
\* refStart > loc.
C14_ScanEqualsFullScan ==
    scanPc = "scanned" => scanBuckets = FullScan(scanBucket, scanLoc)

\* C14 witness: a finished scan that has cut the surplus of anchorsUpstream
\* on the way (more than 10*topn different upstream ends), has stopped early
\* with entries of the bucket unread, and has found overlapping entries.
C14_Witness ==
    /\ scanPc = "scanned"
    /\ Cardinality(UpstreamEnds(scanBucket, scanLoc)) > 10 * topn
    /\ scanNext <= Len(scanBucket)
    /\ Len(scanBuckets.up) = topn
    /\ Len(scanBuckets.down) = topn
    /\ scanBuckets.ov # <<>>

-----------------------------------------------------------------------------
(***************************************************************************)
(* Claims about the major chromosome, checked under SpecAnchors.           *)
(***************************************************************************)
\* The candidate buckets before the major-chromosome filter, in one
\* sequence, and the buckets that reach the collinearity filter.
CandidatesOf(b) == b.up \o b.ov \o b.down
AnchCandidates ==
    CandidatesOf(TrimUpstream(Scan(AnchBucket, anchCoords.loc, 1,
                                   [up |-> <<>>, ov |-> <<>>, down |-> <<>>])))
AnchFiltered == CandidateBuckets(AnchBucket, anchCoords.loc, mapOrderAsc)

HasMaximalCount(c, all) ==
    /\ c \in QryChromsOf(all)
    /\ \A d \in QryChromsOf(all) : ChromCount(all, d) <= ChromCount(all, c)

\* The filter passes only the entries of filt.majorChrom, a chromosome
\* with a maximal count over the candidates cand.
FilterKeepsMajor(cand, filt) ==
    /\ cand # <<>> => HasMaximalCount(filt.majorChrom, cand)
    /\ \A k \in 1..Len(filt.up) : filt.up[k].qryChrom = filt.majorChrom
    /\ \A k \in 1..Len(filt.ov) : filt.ov[k].qryChrom = filt.majorChrom
    /\ \A k \in 1..Len(filt.down) : filt.down[k].qryChrom = filt.majorChrom

ReturnedOnMajor(cand, filt) ==
    AnchReturned =>
        /\ anchOut.upstream.qryChrom = filt.majorChrom
        /\ anchOut.downstream.qryChrom = filt.majorChrom
        /\ HasMaximalCount(anchOut.upstream.qryChrom, cand)

(* C11: whenever getAnchors returns anchors, upstream.qry_chrom =
   downstream.qry_chrom = majorChrom, a query chromosome whose count over
   the combined upstream, overlap and downstream candidates is maximal, and
   no candidate with another qry_chrom reaches the collinearity filter or
   the result. *)
C11_AnchorsOnMajorChrom ==
    (AnchCalled /\ anchCoords.chrom = 0) =>
        /\ FilterKeepsMajor(AnchCandidates, AnchFiltered)
        /\ ReturnedOnMajor(AnchCandidates, AnchFiltered)

\* Witness of C11: getAnchors has returned anchors from candidates that
\* point to two query chromosomes.
C11_Witness ==
    /\ AnchReturned
    /\ Cardinality(QryChromsOf(AnchCandidates)) = 2
    /\ anchOut.upstream # anchOut.downstream

\* The projection of loc in the gap between the flanks a, as lines 473-488
\* compute it.
GapProjection(a, loc) ==
    Interpolate(loc, RefLeftBound(a), RefRightBound(a), QryLeftBound(a),
                QryRightBound(a))

\* Between q and the start of the downstream flank, on the side the strand
\* of the flanks prescribes.
TowardsDownstream(a, from, to) ==
    IF IsQryReversed(a.upstream)
    THEN a.downstream.qryStart <= to /\ to <= from
    ELSE from <= to /\ to <= a.downstream.qryStart

GapTiedToFlanks(a, loc, qryLoc) ==
    /\ loc = a.upstream.refEnd => qryLoc = a.upstream.qryEnd
    /\ \A l \in (loc + 1)..(a.downstream.refStart - 1) :
          TowardsDownstream(a, qryLoc, GapProjection(a, l))

\* C16: for distinct flanking anchors on either strand, the projection of
\* loc = upstream.refEnd is upstream.qryEnd, and as loc increases towards
\* downstream.refStart the projected location moves monotonically towards
\* downstream.qryStart: increasing on the forward strand, decreasing on the
\* reverse strand.
C16_GapTiedToAnchors ==
    (anchPc = "projected" /\ FlanksReturned /\ projOut.kind = "result")
        => GapTiedToFlanks(anchOut, anchCoords.loc, projOut.nextCoords.loc)

====
